---- MODULE Spec2Model ----
(***************************************************************************)
(* Pacer (wojiaojiao/Pacer): the robot state store of                      *)
(* src/src/include/Pacer/robot.h.  The store maps (unit, id) to value      *)
(* vectors for joints, the base body and the feet, keeps the contacts of   *)
(* the tick, and gates every write by the controller phase (check_phase).  *)
(* Every operation of the class is one action; an exception thrown by an   *)
(* operation is recorded in `thrown`, a value returned by a read in `ret`. *)
(***************************************************************************)
EXTENDS Integers, Sequences, FiniteSets, TLC

(***************************************************************************)
(* enum unit_e (robot.h 286-301)                                           *)
(***************************************************************************)
misc_sensor == "misc_sensor"
position == "position"
velocity == "velocity"
acceleration == "acceleration"
load == "load"
misc_planner == "misc_planner"
position_goal == "position_goal"
velocity_goal == "velocity_goal"
acceleration_goal == "acceleration_goal"
misc_controller == "misc_controller"
load_goal == "load_goal"
initialization == "initialization"
clean_up == "clean_up"

\* the units a caller stores values under
Units ==
  {misc_sensor, position, velocity, acceleration, load, misc_planner,
   position_goal, velocity_goal, acceleration_goal, misc_controller, load_goal}

\* every value of the enumeration
AllUnits == Units \cup {initialization, clean_up}

\* the eight units init_state and reset_state size (robot.h 954-955, 980-981)
state_units ==
  {position, position_goal, velocity, velocity_goal, acceleration,
   acceleration_goal, load, load_goal}

(***************************************************************************)
(* enum ControllerPhase (robot.h 343-350)                                  *)
(***************************************************************************)
INITIALIZATION == "INITIALIZATION"
PERCEPTION == "PERCEPTION"
PLANNING == "PLANNING"
CONTROL == "CONTROL"
WAITING == "WAITING"
INCREMENT == "INCREMENT"

Phases == {INITIALIZATION, PERCEPTION, PLANNING, CONTROL, WAITING}

(***************************************************************************)
(* The kinematic tables the store is sized from (robot.h 1078-1083): two   *)
(* joints, the first with one degree of freedom and the second with two,   *)
(* one foot and two links.  std::map iterates its keys in string order,    *)
(* which is the order of these sequences.                                  *)
(***************************************************************************)
_joint_ids == <<"j1", "j2">>
_foot_ids == <<"f1">>
_link_ids == <<"l1", "l2">>

JointIds == {_joint_ids[i] : i \in 1..Len(_joint_ids)}
FootIds == {_foot_ids[i] : i \in 1..Len(_foot_ids)}
LinkIds == {_link_ids[i] : i \in 1..Len(_link_ids)}

\* the DOF count of each joint
JointDofs == [id \in JointIds |-> IF id = "j1" THEN 1 ELSE 2]

NUM_JOINT_DOFS == JointDofs["j1"] + JointDofs["j2"]

NSPATIAL == 6
NEULER == 7

\* the joint-to-coordinate maps the model is checked with: in each, every
\* coordinate index 0..NUM_JOINT_DOFS-1 belongs to exactly one joint DOF
CoordMaps ==
  { [id \in JointIds |-> IF id = "j1" THEN <<0>> ELSE <<1, 2>>],
    [id \in JointIds |-> IF id = "j1" THEN <<2>> ELSE <<0, 1>>],
    [id \in JointIds |-> IF id = "j1" THEN <<1>> ELSE <<2, 0>>] }

(***************************************************************************)
(* Bounds                                                                  *)
(***************************************************************************)
\* setter calls (successful or not) in one run
MaxWrites == 1
\* contacts created in one run of the contact specification
MaxContacts == 3

(***************************************************************************)
(* Exceptions (all are std::runtime_error in the source; the tag names the *)
(* message)                                                                *)
(***************************************************************************)
NoError == "none"
PhaseViolation == "PhaseViolation"
Missized == "Missized"

NoUnit == "none"
NoRet == <<"void">>

VARIABLES
  controller_phase,    \* ControllerPhase controller_phase
  _state,              \* unit -> joint id -> vector
  _base_state,         \* unit -> vector
  _foot_state,         \* unit -> foot id -> Origin3d
  _foot_is_set,        \* foot id -> bool
  _id_contacts_map,    \* link id -> sequence of contacts
  _id_dof_coord_map,   \* joint id -> generalized coordinate of each DOF
  thrown,              \* the exception the last operation ended with
  ret,                 \* the value the last operation returned
  last,                \* the last operation: its name, unit, argument and the phase it began in
  nwrites,             \* setter calls so far
  ncontacts,           \* contacts created so far
  added,               \* history: the contacts added since the contact map was last cleared
  _data_map,           \* name -> the boost::any stored under it: its type and value
  _data_map_mutex,     \* pthread_mutex_t _data_map_mutex
  _state_mutex,        \* pthread_mutex_t _state_mutex
  threads,             \* thread -> where it is in the operation it runs, and its locals
  control_pc,          \* where Quadruped::control is in its tick
  args,                \* the arguments of the tick: q and the active end effectors
  joints_,             \* joints_[i]->q[0]: the joint coordinates the dynamics engine holds
  link_poses,          \* the joint coordinates update_link_poses last computed the poses from
  eefs_,               \* the end effectors whose active flag is set
  NC,                  \* unsigned NC
  uff,                 \* Ravelin::VectorNd uff
  ufb,                 \* Ravelin::VectorNd ufb
  u_,                  \* Ravelin::VectorNd& u, the torque the tick hands back
  queries,             \* history: the queries of this tick, and whether q was written before
  qdd_des,             \* Ravelin::VectorNd qdd_des, the output argument of PID::control
  planner,             \* the gait walk_toward was last called with, its time and the stance feet
  v_,                  \* static Vec v_ of friction_estimation
  f_,                  \* static Vec f_ of friction_estimation
  est,                 \* the last call of friction_estimation: its arguments and what it computed
  qp,                  \* the last call of solve_qp: its arguments before and after, and its result
  _lock_state          \* bool _lock_state of the Robot of include/Pacer/robot.h

vars ==
  <<controller_phase, _state, _base_state, _foot_state, _foot_is_set,
    _id_contacts_map, _id_dof_coord_map, thrown, ret, last, nwrites, ncontacts,
    added, _data_map, _data_map_mutex, _state_mutex, threads,
    control_pc, args, joints_, link_poses, eefs_, NC, uff, ufb, u_, queries,
    qdd_des, planner, v_, f_, est, qp, _lock_state>>

storeVars == <<_state, _base_state, _foot_state, _foot_is_set>>

dataVars == <<_data_map, _data_map_mutex>>

threadVars == <<_state_mutex, threads>>

quadVars ==
  <<control_pc, args, joints_, link_poses, eefs_, NC, uff, ufb, u_, queries, qdd_des>>

plannerVars == <<planner>>

lockVars == <<_lock_state>>

frictVars == <<v_, f_, est, qp>>

\* a mutex of a build with USE_THREADS is Free or Held; a build without has
\* none: there the lock and unlock calls are compiled out
NoMutex == "none"
Free == "free"
Held == "held"

(***************************************************************************)
(* Vectors and std::map helpers                                            *)
(***************************************************************************)
Zeros(n) == [i \in 1..n |-> 0]

Fill(n, v) == [i \in 1..n |-> v]

EmptyMap == [k \in {} |-> <<>>]

\* m[k] of a std::map: a missing key reads as the default-constructed value
At(m, k, dflt) == IF k \in DOMAIN m THEN m[k] ELSE dflt

\* m[k] = v of a std::map
Put(m, k, v) == [x \in (DOMAIN m) \cup {k} |-> IF x = k THEN v ELSE m[x]]

\* _state[u][id], which inserts an empty vector for a missing id
JointVec(st, u, id) == At(st[u], id, <<>>)

Touch(st, u, id) == [st EXCEPT ![u] = Put(st[u], id, JointVec(st, u, id))]

PutJoint(st, u, id, vec) == [st EXCEPT ![u] = Put(st[u], id, vec)]

\* vec.segment(from, to): rows from..to-1 (0-based)
Segment(vec, from, to) == [i \in 1..(to - from) |-> vec[from + i]]

IsPositionUnit(u) == u \in {position_goal, position}

BaseRows(u) == IF IsPositionUnit(u) THEN NEULER ELSE NSPATIAL

(***************************************************************************)
(* The phase controller.  Each operator gives the outcome of the call in   *)
(* phase p: the exception it throws (NoError when none) and the phase it   *)
(* leaves.                                                                 *)
(***************************************************************************)
Pass(p) == [thrown |-> NoError, phase |-> p]

Throw(p) == [thrown |-> PhaseViolation, phase |-> p]

\* an increment_phase that goes round from WAITING to PERCEPTION
increment_phase_round(phase, p) ==
  IF phase = INCREMENT
  THEN CASE p = INITIALIZATION -> Pass(PERCEPTION)
         [] p = WAITING -> Pass(PERCEPTION)
         [] p = PERCEPTION -> Pass(PLANNING)
         [] p = PLANNING -> Pass(CONTROL)
         [] p = CONTROL -> Pass(WAITING)
         [] OTHER -> Throw(p)
  ELSE Pass(phase)

\* Robot::increment_phase(phase), called in phase p
increment_phase(phase, p) ==
  IF phase = INCREMENT
  THEN CASE p = INITIALIZATION -> Pass(PERCEPTION)
         [] p = WAITING -> Throw(p)
         [] p = PERCEPTION -> Pass(PLANNING)
         [] p = PLANNING -> Pass(CONTROL)
         [] p = CONTROL -> Pass(WAITING)
         [] OTHER -> Throw(p)
  ELSE Pass(phase)

\* check_phase, case initialization
check_initialization(p) ==
  IF p # INITIALIZATION /\ p # WAITING THEN Throw(p) ELSE Pass(p)

\* a phase check that lets measured units be set in PERCEPTION only
check_sensed_perception_only(p) ==
  IF p # PERCEPTION THEN Throw(p) ELSE Pass(p)

\* check_phase, cases misc_sensor, position, velocity, acceleration, load
check_sensed(p) ==
  IF p # PERCEPTION /\ p # INITIALIZATION /\ p # WAITING THEN Throw(p) ELSE Pass(p)

\* a phase check that lets planning units be set in CONTROL as well
check_planned_control_too(p) ==
  IF p = PERCEPTION THEN increment_phase(PLANNING, p) ELSE Pass(p)

\* check_phase, cases misc_planner, position_goal, velocity_goal,
\* acceleration_goal
check_planned(p) ==
  IF p # PLANNING /\ p # INITIALIZATION /\ p # WAITING
  THEN IF p = PERCEPTION THEN increment_phase(PLANNING, p) ELSE Throw(p)
  ELSE Pass(p)

\* a phase check that refuses commands in INITIALIZATION and WAITING
check_commanded_control_only(p) ==
  IF p = CONTROL THEN Pass(p)
  ELSE IF p \in {PLANNING, PERCEPTION} THEN increment_phase(CONTROL, p) ELSE Throw(p)

\* check_phase, cases misc_controller, load_goal
check_commanded(p) ==
  IF p # CONTROL /\ p # INITIALIZATION /\ p # WAITING
  THEN IF p = PLANNING
       THEN increment_phase(CONTROL, p)
       ELSE IF p = PERCEPTION THEN increment_phase(CONTROL, p) ELSE Throw(p)
  ELSE Pass(p)

\* a phase check that lets the clean-up run in every phase
check_clean_up_always(p) == Pass(p)

\* check_phase, case clean_up
check_clean_up(p) ==
  IF p # WAITING /\ p # INITIALIZATION THEN Throw(p) ELSE Pass(p)

\* Robot::check_phase(u), called in phase p
check_phase(u, p) ==
  CASE u = initialization -> check_initialization(p)
    [] u \in {misc_sensor, position, velocity, acceleration, load} -> check_sensed(p)
    [] u \in {misc_planner, position_goal, velocity_goal, acceleration_goal} ->
         check_planned(p)
    [] u \in {misc_controller, load_goal} -> check_commanded(p)
    [] u = clean_up -> check_clean_up(p)
    [] OTHER -> Throw(p)

(***************************************************************************)
(* What every operation records when it ends.                              *)
(***************************************************************************)
\* the record create_contact allocates; n tells the allocations apart
create_contact(id, n) == [id |-> id, n |-> n]

\* what an operation of the state store records when it returns or throws;
\* the Quadruped's tick is not touched by it
Returns(op, u, arg, exc, val) ==
  /\ UNCHANGED <<quadVars, plannerVars, lockVars, frictVars>>
  /\ last' = [op |-> op, u |-> u, arg |-> arg, pre |-> controller_phase]
  /\ thrown' = exc
  /\ ret' = val
  /\ added' = IF exc # NoError
              THEN added
              ELSE IF op \in {"reset_contact", "init_state", "reset_state"}
                   THEN {}
                   ELSE IF op = "add_contact"
                        THEN added \cup {create_contact(arg, ncontacts + 1)}
                        ELSE added

\* the end of an operation of the state store, run in one piece by the one
\* thread of a build without USE_THREADS: the data map is not touched
Ends(op, u, arg, exc, val) ==
  /\ Returns(op, u, arg, exc, val)
  /\ UNCHANGED <<dataVars, threadVars>>

\* Robot::reset_phase
reset_phase ==
  /\ controller_phase' = PERCEPTION
  /\ Ends("reset_phase", NoUnit, <<>>, NoError, NoRet)
  /\ UNCHANGED <<storeVars, _id_contacts_map, _id_dof_coord_map, ncontacts>>

\* Robot::increment_phase(phase) called by the controller
increment_phase_call(phase) ==
  LET r == increment_phase(phase, controller_phase) IN
  /\ controller_phase' = r.phase
  /\ Ends("increment_phase", NoUnit, phase, r.thrown, NoRet)
  /\ UNCHANGED <<storeVars, _id_contacts_map, _id_dof_coord_map, ncontacts>>

(***************************************************************************)
(* Joint setters                                                           *)
(***************************************************************************)
\* set_joint_value(id, u, dof, val).  The source indexes the stored vector
\* without a range check: the call is modelled for indices inside it.
set_joint_value_dof(id, u, dof, val) ==
  LET c == check_phase(u, controller_phase) IN
  /\ c.thrown = NoError => dof < Len(JointVec(_state, u, id))
  /\ IF c.thrown # NoError
     THEN UNCHANGED <<controller_phase, _state>>
     ELSE /\ controller_phase' = c.phase
          /\ _state' = PutJoint(_state, u, id,
                                [JointVec(_state, u, id) EXCEPT ![dof + 1] = val])
  /\ Ends("set_joint_value_dof", u, <<id, dof, val>>, c.thrown, NoRet)
  /\ UNCHANGED <<_base_state, _foot_state, _foot_is_set, _id_contacts_map,
                 _id_dof_coord_map, ncontacts>>

\* a set_joint_value that assigns the vector before it compares the lengths
set_joint_value_assign_first(id, u, dof_val) ==
  LET c == check_phase(u, controller_phase)
      sized == Len(JointVec(_state, u, id)) = Len(dof_val)
  IN
  /\ IF c.thrown # NoError
     THEN /\ UNCHANGED <<controller_phase, _state>>
          /\ Ends("set_joint_value", u, <<id, dof_val>>, c.thrown, NoRet)
     ELSE /\ controller_phase' = c.phase
          /\ _state' = PutJoint(_state, u, id, dof_val)
          /\ Ends("set_joint_value", u, <<id, dof_val>>,
                  IF sized THEN NoError ELSE Missized, NoRet)
  /\ UNCHANGED <<_base_state, _foot_state, _foot_is_set, _id_contacts_map,
                 _id_dof_coord_map, ncontacts>>

\* set_joint_value(id, u, dof_val), VectorNd and std::vector overloads
set_joint_value(id, u, dof_val) ==
  LET c == check_phase(u, controller_phase)
      sized == Len(JointVec(_state, u, id)) = Len(dof_val)
  IN
  /\ IF c.thrown # NoError
     THEN /\ UNCHANGED <<controller_phase, _state>>
          /\ Ends("set_joint_value", u, <<id, dof_val>>, c.thrown, NoRet)
     ELSE /\ controller_phase' = c.phase
          /\ _state' = IF sized
                       THEN PutJoint(_state, u, id, dof_val)
                       ELSE Touch(_state, u, id)
          /\ Ends("set_joint_value", u, <<id, dof_val>>,
                  IF sized THEN NoError ELSE Missized, NoRet)
  /\ UNCHANGED <<_base_state, _foot_state, _foot_is_set, _id_contacts_map,
                 _id_dof_coord_map, ncontacts>>

\* the loop of the bulk overloads over the entries of id_dof_val_map, from
\* the i-th key on
RECURSIVE bulk_loop(_, _, _, _)
bulk_loop(u, m, i, st) ==
  IF i > Len(_joint_ids)
  THEN [thrown |-> NoError, st |-> st]
  ELSE LET key == _joint_ids[i] IN
       IF key \notin DOMAIN m
       THEN bulk_loop(u, m, i + 1, st)
       ELSE IF Len(JointVec(st, u, key)) # Len(m[key])
            THEN [thrown |-> Missized, st |-> Touch(st, u, key)]
            ELSE bulk_loop(u, m, i + 1, PutJoint(st, u, key, m[key]))

\* set_joint_value(u, id_dof_val_map), both bulk overloads
set_joint_value_map(u, m) ==
  LET r == bulk_loop(u, m, 1, _state) IN
  /\ _state' = r.st
  /\ Ends("set_joint_value_map", u, m, r.thrown, NoRet)
  /\ UNCHANGED <<controller_phase, _base_state, _foot_state, _foot_is_set,
                 _id_contacts_map, _id_dof_coord_map, ncontacts>>

\* the loop of set_joint_generalized_value over _joint_ids, from the i-th on
\* rows copied in coordinate order, without the joint-to-coordinate map
joint_rows_unmapped(vec, dof) == [j \in 1..Len(dof) |-> vec[j]]

\* the inner loop: dof_val[j] = generalized_vec[dof[j]]
joint_rows(vec, dof) == [j \in 1..Len(dof) |-> vec[dof[j] + 1]]

RECURSIVE generalized_loop(_, _, _, _, _)
generalized_loop(u, vec, i, st, cm) ==
  IF i > Len(_joint_ids)
  THEN [thrown |-> NoError, st |-> st]
  ELSE LET key == _joint_ids[i]
           dof == cm[key]
       IN
       IF Len(dof) # Len(JointVec(st, u, key))
       THEN [thrown |-> Missized, st |-> Touch(st, u, key)]
       ELSE generalized_loop(u, vec, i + 1,
              PutJoint(st, u, key, joint_rows(vec, dof)), cm)

\* the outcome of set_joint_generalized_value(u, generalized_vec) in phase p
\* on the joint store st
joint_generalized_write(u, vec, p, st, cm) ==
  LET c == check_phase(u, p) IN
  IF c.thrown # NoError
  THEN [thrown |-> c.thrown, phase |-> p, st |-> st]
  ELSE IF Len(vec) # NUM_JOINT_DOFS
       THEN [thrown |-> Missized, phase |-> c.phase, st |-> st]
       ELSE LET r == generalized_loop(u, vec, 1, st, cm) IN
            [thrown |-> r.thrown, phase |-> c.phase, st |-> r.st]

set_joint_generalized_value(u, vec) ==
  LET r == joint_generalized_write(u, vec, controller_phase, _state,
                                   _id_dof_coord_map)
  IN
  /\ controller_phase' = r.phase
  /\ _state' = r.st
  /\ Ends("set_joint_generalized_value", u, vec, r.thrown, NoRet)
  /\ UNCHANGED <<_base_state, _foot_state, _foot_is_set, _id_contacts_map,
                 _id_dof_coord_map, ncontacts>>

(***************************************************************************)
(* Base and generalized (joints + base) setters                            *)
(***************************************************************************)
\* the outcome of set_base_value(u, vec) in phase p on the base store bs
\* a set_base_value that stores a base vector of any length
base_write_unsized(u, vec, p, bs) ==
  LET c == check_phase(u, p) IN
  IF c.thrown # NoError
  THEN [thrown |-> c.thrown, phase |-> p, bs |-> bs]
  ELSE [thrown |-> NoError, phase |-> c.phase, bs |-> [bs EXCEPT ![u] = vec]]

base_write(u, vec, p, bs) ==
  LET c == check_phase(u, p) IN
  IF c.thrown # NoError
  THEN [thrown |-> c.thrown, phase |-> p, bs |-> bs]
  ELSE IF Len(vec) # BaseRows(u)
       THEN [thrown |-> Missized, phase |-> c.phase, bs |-> bs]
       ELSE [thrown |-> NoError, phase |-> c.phase, bs |-> [bs EXCEPT ![u] = vec]]

set_base_value(u, vec) ==
  LET r == base_write(u, vec, controller_phase, _base_state) IN
  /\ controller_phase' = r.phase
  /\ _base_state' = r.bs
  /\ Ends("set_base_value", u, vec, r.thrown, NoRet)
  /\ UNCHANGED <<_state, _foot_state, _foot_is_set, _id_contacts_map,
                 _id_dof_coord_map, ncontacts>>

\* set_generalized_value(u, generalized_vec): the phase check, then
\* set_base_value on the base rows, then set_joint_generalized_value on the
\* joint rows.  The segments are taken without a range check: the call is
\* modelled for vectors that hold the rows it takes.
set_generalized_value(u, vec) ==
  LET c == check_phase(u, controller_phase)
      b == base_write(u, Segment(vec, NUM_JOINT_DOFS, NUM_JOINT_DOFS + BaseRows(u)),
                      c.phase, _base_state)
      j == joint_generalized_write(u, Segment(vec, 0, NUM_JOINT_DOFS), b.phase,
                                   _state, _id_dof_coord_map)
  IN
  /\ Len(vec) >= NUM_JOINT_DOFS + BaseRows(u)
  /\ IF c.thrown # NoError
     THEN /\ UNCHANGED <<controller_phase, _state, _base_state>>
          /\ Ends("set_generalized_value", u, vec, c.thrown, NoRet)
     ELSE IF b.thrown # NoError
          THEN /\ controller_phase' = b.phase
               /\ UNCHANGED <<_state, _base_state>>
               /\ Ends("set_generalized_value", u, vec, b.thrown, NoRet)
          ELSE /\ controller_phase' = j.phase
               /\ _base_state' = b.bs
               /\ _state' = j.st
               /\ Ends("set_generalized_value", u, vec, j.thrown, NoRet)
  /\ UNCHANGED <<_foot_state, _foot_is_set, _id_contacts_map, _id_dof_coord_map,
                 ncontacts>>

(***************************************************************************)
(* Foot setters                                                            *)
(***************************************************************************)
set_foot_value(id, u, val) ==
  LET c == check_phase(u, controller_phase) IN
  /\ IF c.thrown # NoError
     THEN UNCHANGED <<controller_phase, _foot_state, _foot_is_set>>
     ELSE /\ controller_phase' = c.phase
          /\ _foot_state' = [_foot_state EXCEPT ![u] = Put(_foot_state[u], id, val)]
          /\ _foot_is_set' = Put(_foot_is_set, id, TRUE)
  /\ Ends("set_foot_value", u, <<id, val>>, c.thrown, NoRet)
  /\ UNCHANGED <<_state, _base_state, _id_contacts_map, _id_dof_coord_map, ncontacts>>

\* set_foot_value(u, val): only the feet already stored under u are written
set_foot_value_map(u, val) ==
  LET c == check_phase(u, controller_phase)
      found == (DOMAIN val) \cap (DOMAIN _foot_state[u])
  IN
  /\ IF c.thrown # NoError
     THEN UNCHANGED <<controller_phase, _foot_state, _foot_is_set>>
     ELSE /\ controller_phase' = c.phase
          /\ _foot_state' =
               [_foot_state EXCEPT ![u] =
                  [f \in DOMAIN _foot_state[u] |->
                     IF f \in found THEN val[f] ELSE _foot_state[u][f]]]
          /\ _foot_is_set' =
               [f \in (DOMAIN _foot_is_set) \cup found |->
                  IF f \in found THEN TRUE ELSE _foot_is_set[f]]
  /\ Ends("set_foot_value_map", u, val, c.thrown, NoRet)
  /\ UNCHANGED <<_state, _base_state, _id_contacts_map, _id_dof_coord_map, ncontacts>>

(***************************************************************************)
(* Contacts                                                                *)
(***************************************************************************)
\* add_contact keeping one contact per id
add_contact_overwrite(id) ==
  LET c == check_phase(misc_sensor, controller_phase) IN
  /\ IF c.thrown # NoError
     THEN UNCHANGED <<controller_phase, _id_contacts_map, ncontacts>>
     ELSE /\ controller_phase' = c.phase
          /\ ncontacts' = ncontacts + 1
          /\ _id_contacts_map' =
               Put(_id_contacts_map, id, <<create_contact(id, ncontacts + 1)>>)
  /\ Ends("add_contact", misc_sensor, id, c.thrown, NoRet)
  /\ UNCHANGED <<storeVars, _id_dof_coord_map>>

add_contact(id) ==
  LET c == check_phase(misc_sensor, controller_phase) IN
  /\ IF c.thrown # NoError
     THEN UNCHANGED <<controller_phase, _id_contacts_map, ncontacts>>
     ELSE /\ controller_phase' = c.phase
          /\ ncontacts' = ncontacts + 1
          /\ _id_contacts_map' =
               Put(_id_contacts_map, id,
                   Append(At(_id_contacts_map, id, <<>>),
                          create_contact(id, ncontacts + 1)))
  /\ Ends("add_contact", misc_sensor, id, c.thrown, NoRet)
  /\ UNCHANGED <<storeVars, _id_dof_coord_map>>

reset_contact ==
  LET c == check_phase(clean_up, controller_phase) IN
  /\ IF c.thrown # NoError
     THEN UNCHANGED <<controller_phase, _id_contacts_map>>
     ELSE /\ controller_phase' = c.phase
          /\ _id_contacts_map' = EmptyMap
  /\ Ends("reset_contact", clean_up, <<>>, c.thrown, NoRet)
  /\ UNCHANGED <<storeVars, _id_dof_coord_map, ncontacts>>

(***************************************************************************)
(* init_state and reset_state                                              *)
(***************************************************************************)
\* the joint vectors both size from get_joint_dofs, which counts the
\* coordinates of the joint in _id_dof_coord_map
ZeroJoints(cm) == [id \in JointIds |-> Zeros(Len(cm[id]))]

ZeroFeet == [f \in FootIds |-> <<0, 0, 0>>]

init_state ==
  LET c == check_phase(initialization, controller_phase)
      k == check_phase(clean_up, c.phase)
      ok == c.thrown = NoError /\ k.thrown = NoError
  IN
  /\ IF ~ok
     THEN UNCHANGED <<controller_phase, storeVars, _id_contacts_map>>
     ELSE /\ controller_phase' = k.phase
          /\ _id_contacts_map' = EmptyMap
          /\ _state' = [u \in Units |->
                          IF u \in state_units
                          THEN ZeroJoints(_id_dof_coord_map)
                          ELSE _state[u]]
          /\ _foot_state' = [u \in Units |->
                               IF u \in state_units THEN ZeroFeet ELSE _foot_state[u]]
          /\ _foot_is_set' = [f \in (DOMAIN _foot_is_set) \cup FootIds |->
                                IF f \in FootIds THEN FALSE ELSE _foot_is_set[f]]
          /\ UNCHANGED _base_state
  /\ Ends("init_state", initialization, <<>>,
          IF ok THEN NoError ELSE PhaseViolation, NoRet)
  /\ UNCHANGED <<_id_dof_coord_map, ncontacts>>

reset_state ==
  LET c == check_phase(clean_up, controller_phase)
      k == check_phase(clean_up, c.phase)
      ok == c.thrown = NoError /\ k.thrown = NoError
  IN
  /\ IF ~ok
     THEN UNCHANGED <<controller_phase, storeVars, _id_contacts_map>>
     ELSE /\ controller_phase' = k.phase
          /\ _id_contacts_map' = EmptyMap
          /\ _state' = [u \in Units |->
                          IF u \in state_units
                          THEN [id \in (DOMAIN _state[u]) \cup JointIds |->
                                  IF id \in JointIds
                                  THEN Zeros(Len(_id_dof_coord_map[id]))
                                  ELSE _state[u][id]]
                          ELSE _state[u]]
          /\ _foot_state' = [u \in Units |->
                               IF u \in state_units
                               THEN [f \in (DOMAIN _foot_state[u]) \cup FootIds |->
                                       IF f \in FootIds
                                       THEN <<0, 0, 0>>
                                       ELSE _foot_state[u][f]]
                               ELSE _foot_state[u]]
          /\ _foot_is_set' = [f \in (DOMAIN _foot_is_set) \cup FootIds |->
                                IF f \in FootIds THEN FALSE ELSE _foot_is_set[f]]
          /\ UNCHANGED _base_state
  /\ Ends("reset_state", clean_up, <<>>,
          IF ok THEN NoError ELSE PhaseViolation, NoRet)
  /\ UNCHANGED <<_id_dof_coord_map, ncontacts>>

(***************************************************************************)
(* Reads                                                                   *)
(***************************************************************************)
get_joint_value(id, u) ==
  /\ _state' = Touch(_state, u, id)
  /\ Ends("get_joint_value", u, id, NoError, JointVec(_state, u, id))
  /\ UNCHANGED <<controller_phase, _base_state, _foot_state, _foot_is_set,
                 _id_contacts_map, _id_dof_coord_map, ncontacts>>

\* the loop of get_joint_generalized_value over the entries of _state[u],
\* from the i-th key on, filling generalized_vec
RECURSIVE gather_loop(_, _, _, _)
gather_loop(m, cm, i, vec) ==
  IF i > Len(_joint_ids)
  THEN vec
  ELSE LET key == _joint_ids[i] IN
       IF key \notin DOMAIN m
       THEN gather_loop(m, cm, i + 1, vec)
       ELSE gather_loop(m, cm, i + 1,
              [c \in 1..Len(vec) |->
                 IF \E j \in 1..Len(m[key]) : cm[key][j] + 1 = c
                 THEN m[key][CHOOSE j \in 1..Len(m[key]) : cm[key][j] + 1 = c]
                 ELSE vec[c]])

\* the vector get_joint_generalized_value(u) returns
joint_generalized_read(st, cm, u) == gather_loop(st[u], cm, 1, Zeros(NUM_JOINT_DOFS))

get_joint_generalized_value(u) ==
  /\ Ends("get_joint_generalized_value", u, <<>>, NoError,
          joint_generalized_read(_state, _id_dof_coord_map, u))
  /\ UNCHANGED <<controller_phase, storeVars, _id_contacts_map, _id_dof_coord_map,
                 ncontacts>>

\* a get_base_value that checks the phase as the setters do
get_base_value_checked(u) ==
  LET c == check_phase(u, controller_phase) IN
  /\ controller_phase' = c.phase
  /\ Ends("get_base_value", u, <<>>, c.thrown,
          IF c.thrown = NoError THEN _base_state[u] ELSE NoRet)
  /\ UNCHANGED <<storeVars, _id_contacts_map, _id_dof_coord_map, ncontacts>>

get_base_value(u) ==
  /\ Ends("get_base_value", u, <<>>, NoError, _base_state[u])
  /\ UNCHANGED <<controller_phase, storeVars, _id_contacts_map, _id_dof_coord_map,
                 ncontacts>>

\* get_generalized_value(u): a zero vector of NUM_JOINT_DOFS + 7 or + 6 rows,
\* overwritten by the joint values and, from row NUM_JOINT_DOFS on, by the
\* stored base vector
generalized_read(st, bs, cm, u) ==
  LET joints == joint_generalized_read(st, cm, u) IN
  [i \in 1..(NUM_JOINT_DOFS + BaseRows(u)) |->
     IF i <= NUM_JOINT_DOFS
     THEN joints[i]
     ELSE IF i - NUM_JOINT_DOFS <= Len(bs[u]) THEN bs[u][i - NUM_JOINT_DOFS] ELSE 0]

get_generalized_value(u) ==
  /\ Ends("get_generalized_value", u, <<>>, NoError,
          generalized_read(_state, _base_state, _id_dof_coord_map, u))
  /\ UNCHANGED <<controller_phase, storeVars, _id_contacts_map, _id_dof_coord_map,
                 ncontacts>>

\* get_foot_value(id, u): _foot_state[u][id] inserts a default-constructed
\* Origin3d, whose rows are not initialized, when the foot has none under u
get_foot_value(id, u) ==
  \E val \in (IF id \in DOMAIN _foot_state[u]
               THEN {_foot_state[u][id]}
               ELSE {<<0, 0, 0>>, <<1, 1, 1>>}) :
    /\ _foot_state' = [_foot_state EXCEPT ![u] = Put(@, id, val)]
    /\ Ends("get_foot_value", u, id, NoError, val)
    /\ UNCHANGED <<controller_phase, _state, _base_state, _foot_is_set,
                   _id_contacts_map, _id_dof_coord_map, ncontacts>>

get_contacts ==
  /\ Ends("get_contacts", NoUnit, <<>>, NoError, _id_contacts_map)
  /\ UNCHANGED <<controller_phase, storeVars, _id_contacts_map, _id_dof_coord_map,
                 ncontacts>>

\* the loop of get_all_contacts over _link_ids, from the i-th link on
RECURSIVE all_contacts_loop(_, _, _)
all_contacts_loop(m, i, contacts) ==
  IF i > Len(_link_ids)
  THEN contacts
  ELSE all_contacts_loop(m, i + 1, contacts \o At(m, _link_ids[i], <<>>))

\* get_all_contacts(contacts) into an empty vector; _id_contacts_map[id]
\* inserts an empty entry for every link that has none
get_all_contacts ==
  /\ _id_contacts_map' =
       [id \in (DOMAIN _id_contacts_map) \cup LinkIds |->
          At(_id_contacts_map, id, <<>>)]
  /\ Ends("get_all_contacts", NoUnit, <<>>, NoError,
          all_contacts_loop(_id_contacts_map, 1, <<>>))
  /\ UNCHANGED <<controller_phase, storeVars, _id_dof_coord_map, ncontacts>>

(***************************************************************************)
(* The Quadruped example (Examples/Quadruped/quadruped.cc): its switches,  *)
(* two of its joints (one of each torque limit) and its four feet.         *)
(* Torques are in hundredths of a newton metre.                            *)
(***************************************************************************)
WALK == TRUE
TRUNK_STABILIZATION == FALSE
CONTROL_IDYN == TRUE
FRICTION_EST == FALSE
PARALLEL_STIFFNESS == FALSE

joint_names_ == <<"LF_HIP_AA", "LH_HIP_FE">>
NUM_JOINTS == Len(joint_names_)
eef_names_ == <<"LF_FOOT", "RF_FOOT", "LH_FOOT", "RH_FOOT">>
NUM_EEFS == Len(eef_names_)

torque_limits_ == [i \in 1..NUM_JOINTS |-> IF joint_names_[i] = "LH_HIP_FE" THEN 600 ELSE 260]

\* the home angles q0_ as a joint vector; joint coordinates are told apart,
\* not measured: 0 names the home angle of a joint
q0_ == [i \in 1..NUM_JOINTS |-> 0]

\* a double: finite, an infinity of either sign, or not a number
Fin(n) == [k |-> "finite", v |-> n]
Inf(sign) == [k |-> "inf", v |-> sign]
NaN == [k |-> "nan", v |-> 0]
isfinite(x) == x.k = "finite"

\* x + y of two doubles
plus(x, y) ==
  IF isfinite(x) /\ isfinite(y) THEN Fin(x.v + y.v)
  ELSE IF x = NaN \/ y = NaN THEN NaN
  ELSE IF ~isfinite(x) /\ ~isfinite(y) THEN (IF x = y THEN x ELSE NaN)
  ELSE IF isfinite(x) THEN y ELSE x

\* x * a of a double and a finite factor a > 0
times(x, a) == IF isfinite(x) THEN Fin(x.v * a) ELSE x

\* Ravelin::VectorNd::set_zero(n)
set_zero(n) == [i \in 1..n |-> Fin(0)]

\* Ravelin::VectorNd operator+=
add_to(v, w) == [i \in 1..Len(v) |-> plus(v[i], w[i])]

\* Ravelin::VectorNd operator*=
scale(v, a) == [i \in 1..Len(v) |-> times(v[i], a)]

NoLoop == [overrun |-> FALSE, visited |-> <<>>]
NoTick ==
  [q |-> <<>>, active |-> {}, written |-> FALSE, pid |-> <<>>, id |-> <<>>,
   contact_loop |-> NoLoop, idyn_loop |-> NoLoop]

\* walk_toward has not been called
NoPlan == [gait |-> "none", t |-> -1, stance |-> {}]

\* friction_estimation has not been called
NoEstimate ==
  [calls |-> 0, post_event |-> FALSE, nc |-> 0, v |-> <<>>, f |-> <<>>, dt |-> 0,
   pre_called |-> FALSE, pre_v |-> <<>>, pre_f |-> <<>>,
   subtracted_v |-> FALSE, dv |-> <<>>,
   subtracted_f |-> FALSE, j_expected |-> <<>>,
   c |-> <<>>, stage2 |-> FALSE, P |-> <<>>, c_used |-> <<>>, cP |-> <<>>,
   completed |-> FALSE, cf |-> <<>>, MU |-> <<>>]

\* solve_qp has not been called
NoQP == [called |-> FALSE]

\* Quadruped::init: the home angles are written into the engine, the link
\* poses are updated, then Robot::update runs; no tick has begun
Quadruped_init ==
  /\ control_pc = "idle"
  /\ args = NoTick
  /\ joints_ = q0_
  /\ link_poses = q0_
  /\ eefs_ = {}
  /\ NC = 0
  /\ uff = set_zero(NUM_JOINTS)
  /\ ufb = set_zero(NUM_JOINTS)
  /\ u_ = set_zero(NUM_JOINTS)
  /\ queries = {}
  /\ qdd_des = set_zero(NUM_JOINTS)
  /\ planner = NoPlan
  /\ v_ = <<>>
  /\ f_ = <<>>
  /\ est = NoEstimate
  /\ qp = NoQP

(***************************************************************************)
(* The state after construction and init_state: Robot() sets the phase,    *)
(* the kinematic tables are compiled, init_state sizes the eight state     *)
(* units; nothing has been stored in the base state yet.                   *)
(***************************************************************************)
ConstructedMaps(cm) ==
  /\ controller_phase = INITIALIZATION
  /\ _id_dof_coord_map = cm
  /\ _state = [u \in Units |-> IF u \in state_units THEN ZeroJoints(cm) ELSE EmptyMap]
  /\ _base_state = [u \in Units |-> <<>>]
  /\ _foot_state = [u \in Units |-> IF u \in state_units THEN ZeroFeet ELSE EmptyMap]
  /\ _foot_is_set = [f \in FootIds |-> FALSE]
  /\ _id_contacts_map = EmptyMap
  /\ thrown = NoError
  /\ ret = NoRet
  /\ last = [op |-> "init_state", u |-> initialization, arg |-> <<>>,
             pre |-> INITIALIZATION]
  /\ nwrites = 0
  /\ ncontacts = 0
  /\ added = {}
  /\ Quadruped_init

\* the Robot that keeps a controller phase has no lock flag to set
ConstructedStore(cm) ==
  /\ ConstructedMaps(cm)
  /\ _lock_state = FALSE

\* a robot of a build without USE_THREADS, with nothing in its data map
Constructed(cm) ==
  /\ ConstructedStore(cm)
  /\ _data_map = EmptyMap
  /\ _data_map_mutex = NoMutex
  /\ _state_mutex = NoMutex
  /\ threads = EmptyMap

(***************************************************************************)
(* Spec: every setter under every unit, and the phase calls.  The setters  *)
(* are called with vectors of the right and of a wrong length.             *)
(***************************************************************************)
DofInputs == {0, 1}
ValInputs == {1}
JointVecInputs == {<<1>>, <<1, 1>>}
BulkInputs ==
  { [id \in JointIds |-> IF id = "j1" THEN <<1>> ELSE <<1, 1>>],
    [id \in JointIds |-> <<1>>] }
JointGeneralizedInputs == {<<1, 1, 1>>, <<1, 1>>}
GeneralizedInputs ==
  {Fill(NUM_JOINT_DOFS + NEULER, 1), Fill(NUM_JOINT_DOFS + NSPATIAL, 1)}
BaseInputs == {Fill(NSPATIAL, 1), Fill(NEULER, 1)}
FootInputs == {<<1, 1, 1>>}
FootMapInputs == { [f \in FootIds |-> <<1, 1, 1>>] }
ContactIds == LinkIds \cup {"x"}

Init == Constructed([id \in JointIds |-> IF id = "j1" THEN <<2>> ELSE <<0, 1>>])

Setters ==
  \/ \E id \in JointIds, u \in Units, dof \in DofInputs, val \in ValInputs :
       set_joint_value_dof(id, u, dof, val)
  \/ \E id \in JointIds, u \in Units, vec \in JointVecInputs :
       set_joint_value(id, u, vec)
  \/ \E u \in Units, m \in BulkInputs : set_joint_value_map(u, m)
  \/ \E u \in Units, vec \in JointGeneralizedInputs :
       set_joint_generalized_value(u, vec)
  \/ \E u \in Units, vec \in GeneralizedInputs : set_generalized_value(u, vec)
  \/ \E u \in Units, vec \in BaseInputs : set_base_value(u, vec)
  \/ \E id \in FootIds, u \in Units, val \in FootInputs : set_foot_value(id, u, val)
  \/ \E u \in Units, val \in FootMapInputs : set_foot_value_map(u, val)
  \/ \E id \in ContactIds : add_contact(id)

PhaseCalls ==
  \/ reset_phase
  \/ \E phase \in Phases \cup {INCREMENT} : increment_phase_call(phase)
  \/ reset_contact
  \/ init_state
  \/ reset_state

Next ==
  \/ nwrites < MaxWrites /\ nwrites' = nwrites + 1 /\ Setters
  \/ UNCHANGED nwrites /\ PhaseCalls

Spec == Init /\ [][Next]_vars

(***************************************************************************)
(* SpecRead: the reads, after generalized, base, foot and contact writes   *)
(* in any phase, for each of the joint-to-coordinate maps.                 *)
(***************************************************************************)
ReadUnits == {position, load_goal}
RoundTripInputs == {<<1, 2, 3>>, <<1, 2>>}

InitRead == \E cm \in CoordMaps : Constructed(cm)

SettersRead ==
  \/ \E u \in Units, vec \in RoundTripInputs : set_joint_generalized_value(u, vec)
  \/ \E u \in ReadUnits, vec \in BaseInputs : set_base_value(u, vec)
  \/ \E id \in FootIds, u \in ReadUnits, val \in FootInputs : set_foot_value(id, u, val)
  \/ \E id \in LinkIds : add_contact(id)

Getters ==
  \/ \E id \in JointIds, u \in ReadUnits : get_joint_value(id, u)
  \/ \E u \in Units : get_joint_generalized_value(u)
  \/ \E u \in ReadUnits : get_generalized_value(u)
  \/ \E u \in ReadUnits : get_base_value(u)
  \/ \E id \in FootIds, u \in ReadUnits : get_foot_value(id, u)
  \/ get_contacts
  \/ get_all_contacts

NextRead ==
  \/ nwrites < MaxWrites /\ nwrites' = nwrites + 1 /\ SettersRead
  \/ UNCHANGED nwrites /\ Getters
  \/ UNCHANGED nwrites /\ increment_phase_call(INCREMENT)
  \/ UNCHANGED nwrites /\ reset_phase

SpecRead == InitRead /\ [][NextRead]_vars

(***************************************************************************)
(* SpecContact: the contacts of a tick.                                    *)
(***************************************************************************)
NextContact ==
  /\ UNCHANGED nwrites
  /\ \/ ncontacts < MaxContacts /\ \E id \in ContactIds : add_contact(id)
     \/ reset_contact
     \/ get_contacts
     \/ get_all_contacts
     \/ increment_phase_call(INCREMENT)
     \/ reset_phase

SpecContact == Init /\ [][NextContact]_vars

(***************************************************************************)
(* Properties.  A step is told by the operation it records in last': its   *)
(* name, unit, arguments and the phase it began in.                        *)
(***************************************************************************)
MeasuredUnits == {misc_sensor, position, velocity, acceleration, load}
GoalUnits == {position_goal, velocity_goal, acceleration_goal}
PlanningClass == {misc_planner} \cup GoalUnits
ControlClass == {misc_controller, load_goal}

\* the setters that call check_phase, and the bulk overloads, which do not
CheckedSetters ==
  {"set_joint_value_dof", "set_joint_value", "set_joint_generalized_value",
   "set_generalized_value", "set_base_value", "set_foot_value",
   "set_foot_value_map"}
BulkSetters == {"set_joint_value_map"}
AllSetters == CheckedSetters \cup BulkSetters

\* everything stored under unit u
StoredUnder(u) == <<_state[u], _base_state[u], _foot_state[u]>>

\* the rows of a generalized vector that joint id holds under unit u
HoldsRows(u, id, vec) ==
  /\ id \in DOMAIN _state[u]
  /\ Len(_state[u][id]) = Len(_id_dof_coord_map[id])
  /\ \A j \in 1..Len(_id_dof_coord_map[id]) :
       _state[u][id][j] = vec[_id_dof_coord_map[id][j] + 1]

\* the store holds what the last operation, a setter, was asked to store
LastStored ==
  LET u == last.u
      a == last.arg
  IN
  CASE last.op = "set_joint_value_dof" ->
         a[1] \in DOMAIN _state[u] /\ _state[u][a[1]][a[2] + 1] = a[3]
    [] last.op = "set_joint_value" ->
         a[1] \in DOMAIN _state[u] /\ _state[u][a[1]] = a[2]
    [] last.op = "set_joint_value_map" ->
         \A id \in DOMAIN a : id \in DOMAIN _state[u] /\ _state[u][id] = a[id]
    [] last.op = "set_joint_generalized_value" ->
         \A id \in JointIds : HoldsRows(u, id, a)
    [] last.op = "set_generalized_value" ->
         /\ \A id \in JointIds : HoldsRows(u, id, a)
         /\ _base_state[u] = [i \in 1..BaseRows(u) |-> a[NUM_JOINT_DOFS + i]]
    [] last.op = "set_base_value" -> _base_state[u] = a
    [] last.op = "set_foot_value" ->
         /\ a[1] \in DOMAIN _foot_state[u] /\ _foot_state[u][a[1]] = a[2]
         /\ a[1] \in DOMAIN _foot_is_set /\ _foot_is_set[a[1]]
    [] last.op = "set_foot_value_map" ->
         \A f \in (DOMAIN a) \cap (DOMAIN _foot_state[u]) : _foot_state[u][f] = a[f]
    [] last.op = "add_contact" ->
         /\ a \in DOMAIN _id_contacts_map
         /\ Len(_id_contacts_map[a]) > 0
         /\ _id_contacts_map[a][Len(_id_contacts_map[a])] = create_contact(a, ncontacts)
    [] OTHER -> FALSE

\* the step is a call of one of the setters ops on unit u, begun in phase p
Wrote(ops, u, p) == last'.op \in ops /\ last'.u = u /\ last'.pre = p

\* the step left the store, the contacts and the phase as they were
Untouched == UNCHANGED <<storeVars, _id_contacts_map, controller_phase>>

\* C1: in PERCEPTION a load_goal write through set_joint_value,
\* set_joint_generalized_value, set_base_value or set_generalized_value fails
\* with a phase violation, and leaves the stored load_goal values and the
\* phase PERCEPTION as they were.
C1_LoadGoalRejectedInPerception ==
  [][ Wrote({"set_joint_value_dof", "set_joint_value", "set_joint_generalized_value",
             "set_base_value", "set_generalized_value"}, load_goal, PERCEPTION)
      => /\ thrown' = PhaseViolation
         /\ StoredUnder(load_goal)' = StoredUnder(load_goal)
         /\ controller_phase' = PERCEPTION ]_vars

\* C2, as stated: a write to a measured unit (add_contact included) is
\* accepted only in PERCEPTION and rejected with a phase violation in every
\* other phase.
C2_MeasuredOnlyInPerception ==
  [][ \A u \in MeasuredUnits, p \in Phases :
        Wrote(AllSetters \cup {"add_contact"}, u, p)
        => IF p = PERCEPTION THEN thrown' # PhaseViolation ELSE thrown' = PhaseViolation
    ]_vars

\* C2, amended: through every setter that checks the phase (add_contact
\* included) a write to a measured unit is accepted in PERCEPTION,
\* INITIALIZATION and WAITING, where it stores its value and keeps the
\* phase, and is rejected with a phase violation in PLANNING and CONTROL,
\* where it changes nothing; the bulk overloads of set_joint_value never
\* reject it.
C2_MeasuredInPerceptionInitWaiting ==
  [][ \A u \in MeasuredUnits, p \in Phases :
        /\ Wrote(CheckedSetters \cup {"add_contact"}, u, p)
           => IF p \in {PERCEPTION, INITIALIZATION, WAITING}
              THEN /\ thrown' # PhaseViolation
                   /\ controller_phase' = p
                   /\ thrown' = NoError => LastStored'
              ELSE thrown' = PhaseViolation /\ Untouched
        /\ Wrote(BulkSetters, u, p) => thrown' # PhaseViolation
    ]_vars

\* C2 witness: a position vector was stored in WAITING
C2_Witness ==
  /\ last.op = "set_joint_value" /\ last.u = position /\ last.pre = WAITING
  /\ thrown = NoError
  /\ controller_phase = WAITING
  /\ _state[position]["j1"] = <<1>>

\* C3, as stated: a write to a goal unit succeeds and is stored both in
\* PLANNING and in CONTROL.
C3_GoalInPlanningAndControl ==
  [][ \A u \in GoalUnits, p \in {PLANNING, CONTROL} :
        (Wrote(AllSetters, u, p) /\ thrown' # Missized)
        => thrown' = NoError /\ LastStored' ]_vars

\* C3, amended: a write to a goal unit is accepted in PLANNING, where the
\* setter succeeds and the value is stored; in CONTROL every setter that
\* checks the phase rejects it with a phase violation and changes nothing,
\* and only the bulk overloads of set_joint_value store it.
C3_GoalInPlanningNotControl ==
  [][ \A u \in GoalUnits :
        /\ (Wrote(AllSetters, u, PLANNING) /\ thrown' # Missized)
           => thrown' = NoError /\ LastStored' /\ controller_phase' = PLANNING
        /\ Wrote(CheckedSetters, u, CONTROL) => thrown' = PhaseViolation /\ Untouched
        /\ (Wrote(BulkSetters, u, CONTROL) /\ thrown' # Missized)
           => thrown' = NoError /\ LastStored'
    ]_vars

\* C3 witness: a position_goal write was rejected in CONTROL
C3_Witness ==
  /\ last.op = "set_joint_generalized_value" /\ last.u = position_goal
  /\ last.pre = CONTROL
  /\ thrown = PhaseViolation
  /\ controller_phase = CONTROL
  /\ _state[position_goal]["j2"] = <<0, 0>>

\* C4, as stated: a load_goal write that takes effect leaves the phase
\* CONTROL, and a load_goal write in INITIALIZATION or WAITING is rejected
\* and stores nothing.
C4_LoadGoalOnlyInControl ==
  [][ \A p \in Phases :
        Wrote(AllSetters, load_goal, p)
        => /\ thrown' = NoError => controller_phase' = CONTROL
           /\ p \in {INITIALIZATION, WAITING}
              => thrown' = PhaseViolation /\ StoredUnder(load_goal)' = StoredUnder(load_goal)
    ]_vars

\* C4, amended: a load_goal write that takes effect through a setter that
\* checks the phase leaves the phase CONTROL, or INITIALIZATION or WAITING
\* when it began there; a load_goal write in INITIALIZATION or WAITING is
\* accepted, stores its value and keeps the phase.
C4_LoadGoalInControlInitWaiting ==
  [][ \A p \in Phases :
        /\ (Wrote(CheckedSetters, load_goal, p) /\ thrown' = NoError)
           => \/ controller_phase' = CONTROL
              \/ p \in {INITIALIZATION, WAITING} /\ controller_phase' = p
        /\ (Wrote(AllSetters, load_goal, p) /\ p \in {INITIALIZATION, WAITING}
              /\ thrown' # Missized)
           => thrown' = NoError /\ LastStored' /\ controller_phase' = p
    ]_vars

\* C4 witness: a load_goal vector was stored in WAITING
C4_Witness ==
  /\ last.op = "set_joint_generalized_value" /\ last.u = load_goal
  /\ last.pre = WAITING
  /\ thrown = NoError
  /\ controller_phase = WAITING
  /\ _state[load_goal]["j2"] = <<1, 1>>

\* the phases in which check_phase refuses unit u
Refused(u) ==
  IF u \in MeasuredUnits THEN {PLANNING, CONTROL}
  ELSE IF u \in PlanningClass THEN {CONTROL}
  ELSE {}

\* the step changed what is stored under unit u
ChangedUnder(u) ==
  <<_state'[u], _base_state'[u], _foot_state'[u]>> # <<_state[u], _base_state[u], _foot_state[u]>>

\* C5: every setter (per-DOF, per-joint, bulk map, generalized, base, foot)
\* checks the phase against the unit before it writes: no setter stores a
\* value of a unit in a phase that unit does not allow.
C5_EverySetterChecksPhase ==
  [][ \A u \in Units, p \in Phases :
        (Wrote(AllSetters, u, p) /\ ChangedUnder(u)) => p \notin Refused(u) ]_vars

\* the five transitions of the phase-state machine
LegalTransitions ==
  {<<INITIALIZATION, PERCEPTION>>, <<PERCEPTION, PLANNING>>, <<PLANNING, CONTROL>>,
   <<CONTROL, WAITING>>, <<WAITING, PERCEPTION>>}

\* C6: every change of the controller phase, by a write's phase check, by
\* increment_phase or by reset_phase, is one of the five legal transitions;
\* any other requested transition is rejected with a phase violation and
\* leaves the phase unchanged.
C6_OnlyLegalTransitions ==
  [][ /\ controller_phase' # controller_phase
         => <<controller_phase, controller_phase'>> \in LegalTransitions
      /\ \A p \in Phases :
           (last'.op = "increment_phase" /\ last'.arg = p /\ p # last'.pre
              /\ <<last'.pre, p>> \notin LegalTransitions)
           => thrown' = PhaseViolation /\ controller_phase' = controller_phase
    ]_vars

\* C7: a well-sized write to a planning-class unit made in PERCEPTION moves
\* the phase to PLANNING and takes effect; a well-sized write to a
\* control-class unit made in PLANNING moves the phase to CONTROL and takes
\* effect.
C7_FirstWriteAdvancesPhase ==
  [][ /\ \A u \in PlanningClass :
           (Wrote(AllSetters, u, PERCEPTION) /\ thrown' # Missized)
           => thrown' = NoError /\ LastStored' /\ controller_phase' = PLANNING
      /\ \A u \in ControlClass :
           (Wrote(AllSetters, u, PLANNING) /\ thrown' # Missized)
           => thrown' = NoError /\ LastStored' /\ controller_phase' = CONTROL
    ]_vars

\* C30: a write that fails leaves the phase as it was; a write of a vector
\* of a wrong length to a goal unit or to load_goal, made in PERCEPTION or
\* PLANNING, moreover leaves every stored vector as it was.
C30_FailedWriteKeepsPhase ==
  [][ \A u \in Units :
        (last'.op \in AllSetters /\ last'.u = u /\ thrown' # NoError)
        => /\ controller_phase' = controller_phase
           /\ (u \in GoalUnits \cup {load_goal} /\ thrown' = Missized
                 /\ last'.pre \in {PERCEPTION, PLANNING})
              => /\ \A v \in Units : \A id \in DOMAIN _state[v] :
                      id \in DOMAIN _state'[v] /\ _state'[v][id] = _state[v][id]
                 /\ UNCHANGED <<_base_state, _foot_state>>
    ]_vars

\* C31: a bulk set_joint_value(u, map) is all-or-nothing: when an entry of
\* the map has another length than the stored vector of its joint, the call
\* fails and the stored value of no joint under u has changed.
C31_BulkWriteAllOrNothing ==
  [][ \A u \in Units :
        (/\ last'.op = "set_joint_value_map" /\ last'.u = u
         /\ \E id \in DOMAIN last'.arg :
              Len(last'.arg[id]) # Len(At(_state[u], id, <<>>)))
        => /\ thrown' = Missized
           /\ \A id \in DOMAIN _state[u] :
                id \in DOMAIN _state'[u] /\ _state'[u][id] = _state[u][id]
    ]_vars

\* the phase that follows each phase in a control cycle
NextInCycle ==
  [p \in {INITIALIZATION, PERCEPTION, PLANNING, CONTROL} |->
     CASE p = INITIALIZATION -> PERCEPTION
       [] p = PERCEPTION -> PLANNING
       [] p = PLANNING -> CONTROL
       [] p = CONTROL -> WAITING]

\* every increment_phase(INCREMENT) moves the phase to the next of the
\* cycle, and in WAITING it fails and leaves the phase WAITING
IncrementsInOrder ==
  (last'.op = "increment_phase" /\ last'.arg = INCREMENT)
  => IF controller_phase = WAITING
     THEN thrown' = PhaseViolation /\ controller_phase' = WAITING
     ELSE thrown' = NoError /\ controller_phase' = NextInCycle[controller_phase]

\* C34, as stated: starting in INITIALIZATION, successive
\* increment_phase(INCREMENT) calls move the phase through PERCEPTION,
\* PLANNING, CONTROL and WAITING in that order; a further increment from
\* WAITING fails and leaves the phase WAITING; reset_phase is the only
\* operation that takes the controller from WAITING to PERCEPTION.
C34_IncrementCycleResetOnly ==
  [][ /\ IncrementsInOrder
      /\ (controller_phase = WAITING /\ controller_phase' = PERCEPTION)
         => last'.op = "reset_phase" ]_vars

\* C34, amended: the increments are as stated; the operations that take the
\* controller from WAITING to PERCEPTION are reset_phase and
\* increment_phase called with the target PERCEPTION, and no write does.
C34_IncrementCycle ==
  [][ /\ IncrementsInOrder
      /\ (controller_phase = WAITING /\ controller_phase' = PERCEPTION)
         => \/ last'.op = "reset_phase"
            \/ last'.op = "increment_phase" /\ last'.arg = PERCEPTION ]_vars

\* an increment was refused in WAITING and the phase is WAITING
C34_Witness ==
  /\ last.op = "increment_phase" /\ last.arg = INCREMENT /\ last.pre = WAITING
  /\ thrown = PhaseViolation
  /\ controller_phase = WAITING

\* C35: reset_contact and reset_state succeed only while the phase is
\* WAITING or INITIALIZATION; called in PERCEPTION, PLANNING or CONTROL they
\* fail, and the contact map and all stored state values are unchanged.
C35_CleanUpOnlyWhenIdle ==
  [][ last'.op \in {"reset_contact", "reset_state"}
      => IF controller_phase \in {WAITING, INITIALIZATION}
         THEN thrown' = NoError /\ _id_contacts_map' = EmptyMap
         ELSE /\ thrown' = PhaseViolation
              /\ UNCHANGED <<storeVars, _id_contacts_map, controller_phase>> ]_vars

\* reset_contact was refused in PERCEPTION and the contacts are still there
C35_Witness ==
  /\ last.op = "reset_contact" /\ last.pre = PERCEPTION
  /\ thrown = PhaseViolation
  /\ _id_contacts_map # EmptyMap

\* the reads of the state store
ReadOps ==
  {"get_joint_value", "get_joint_generalized_value", "get_generalized_value",
   "get_base_value", "get_foot_value", "get_contacts", "get_all_contacts"}

\* C8: every read of the state store succeeds in every controller phase and
\* leaves the controller phase unchanged.
C8_ReadsPhaseAgnostic ==
  [][ last'.op \in ReadOps
      => thrown' = NoError /\ controller_phase' = controller_phase ]_vars

\* C8 witness: the base position stored in PERCEPTION was read in CONTROL
C8_Witness ==
  /\ last.op = "get_base_value" /\ last.u = position /\ last.pre = CONTROL
  /\ thrown = NoError
  /\ controller_phase = CONTROL
  /\ ret = Fill(NEULER, 1)

\* the contacts a contact map holds, and how many
ContactsIn(m) == {m[id][i] : <<id, i>> \in {x \in (DOMAIN m) \X (1..MaxContacts) : x[2] <= Len(m[x[1]])}}
RECURSIVE CountIn(_, _)
CountIn(m, ids) ==
  IF ids = {} THEN 0
  ELSE LET id == CHOOSE x \in ids : TRUE IN Len(m[id]) + CountIn(m, ids \ {id})
Range(seq) == {seq[i] : i \in 1..Len(seq)}

\* C9: after reset_contact the contact map is empty, and after k successful
\* add_contact calls since, get_contacts returns exactly those k contacts,
\* each once, and get_all_contacts into an empty vector returns exactly
\* those of them that are on links of the robot, each once.
C9_ContactsRoundTrip ==
  /\ (last.op = "reset_contact" /\ thrown = NoError)
     => _id_contacts_map = EmptyMap /\ added = {}
  /\ last.op = "get_contacts"
     => /\ ContactsIn(ret) = added
        /\ CountIn(ret, DOMAIN ret) = Cardinality(added)
  /\ last.op = "get_all_contacts"
     => /\ Range(ret) = {c \in added : c.id \in LinkIds}
        /\ Len(ret) = Cardinality({c \in added : c.id \in LinkIds})

\* C9 witness: two contacts on one link were added after a reset that
\* cleared an earlier contact, and get_all_contacts returned the two
C9_Witness ==
  /\ last.op = "get_all_contacts"
  /\ ncontacts = 3
  /\ added = {create_contact("l1", 2), create_contact("l1", 3)}
  /\ ret = <<create_contact("l1", 2), create_contact("l1", 3)>>

\* C10: a successful set_joint_generalized_value(u, v) followed by
\* get_joint_generalized_value(u) returns exactly v, for every
\* joint-to-coordinate map that gives each coordinate to one joint DOF.
C10_JointGeneralizedRoundTrip ==
  [][ (/\ last.op = "set_joint_generalized_value" /\ thrown = NoError
       /\ last'.op = "get_joint_generalized_value" /\ last'.u = last.u)
      => ret' = last.arg ]_vars

\* C10 witness: <<1, 2, 3>> was read back under a map that permutes the
\* coordinates
C10_Witness ==
  /\ last.op = "get_joint_generalized_value" /\ last.u = velocity_goal
  /\ ret = <<1, 2, 3>>
  /\ _id_dof_coord_map["j1"] = <<1>>
  /\ _state[velocity_goal]["j2"] = <<3, 1>>

(***************************************************************************)
(* convert_from_generalized and convert_to_generalized                     *)
(***************************************************************************)
\* rows copied in coordinate order, without the joint-to-coordinate map
convert_rows_unmapped(vec, dof) == [j \in 1..Len(dof) |-> vec[j]]

\* the inner loop of convert_from_generalized: dof_val[j] = generalized_vec[dof[j]]
convert_rows(vec, dof) == [j \in 1..Len(dof) |-> vec[dof[j] + 1]]

\* convert_from_generalized(generalized_vec, id_dof_val_map): every key of
\* _id_dof_coord_map gets its entry of id_dof_val_map resized and filled
convert_from_generalized(vec, m, cm) ==
  IF Len(vec) # NUM_JOINT_DOFS
  THEN [thrown |-> Missized, map |-> m]
  ELSE [thrown |-> NoError,
        map |-> [id \in (DOMAIN m) \cup (DOMAIN cm) |->
                   IF id \in DOMAIN cm THEN convert_rows(vec, cm[id]) ELSE m[id]]]

\* the loop of convert_to_generalized over the entries of id_dof_val_map,
\* from the i-th key on
RECURSIVE to_generalized_loop(_, _, _, _)
to_generalized_loop(m, cm, i, vec) ==
  IF i > Len(_joint_ids)
  THEN [thrown |-> NoError, vec |-> vec]
  ELSE LET key == _joint_ids[i] IN
       IF key \notin DOMAIN m
       THEN to_generalized_loop(m, cm, i + 1, vec)
       ELSE IF Len(cm[key]) # Len(m[key])
            THEN [thrown |-> Missized, vec |-> vec]
            ELSE to_generalized_loop(m, cm, i + 1,
                   [c \in 1..Len(vec) |->
                      IF \E j \in 1..Len(m[key]) : cm[key][j] + 1 = c
                      THEN m[key][CHOOSE j \in 1..Len(m[key]) : cm[key][j] + 1 = c]
                      ELSE vec[c]])

\* convert_to_generalized(id_dof_val_map, generalized_vec)
convert_to_generalized(m, cm) == to_generalized_loop(m, cm, 1, Zeros(NUM_JOINT_DOFS))

convert_from_generalized_call(vec, m) ==
  LET r == convert_from_generalized(vec, m, _id_dof_coord_map) IN
  /\ Ends("convert_from_generalized", NoUnit, vec, r.thrown,
          IF r.thrown = NoError THEN r.map ELSE NoRet)
  /\ UNCHANGED <<controller_phase, storeVars, _id_contacts_map, _id_dof_coord_map,
                 ncontacts, nwrites>>

convert_to_generalized_call(m) ==
  LET r == convert_to_generalized(m, _id_dof_coord_map) IN
  /\ Ends("convert_to_generalized", NoUnit, m, r.thrown,
          IF r.thrown = NoError THEN r.vec ELSE NoRet)
  /\ UNCHANGED <<controller_phase, storeVars, _id_contacts_map, _id_dof_coord_map,
                 ncontacts, nwrites>>

(***************************************************************************)
(* SpecConvert: the conversions, for each of the joint-to-coordinate maps, *)
(* on every vector of NUM_JOINT_DOFS rows over three values, on a short    *)
(* vector, into an empty map and into a map that holds stale vectors.      *)
(***************************************************************************)
ConvertValues == {1, 2, 3}
ConvertInputs == [1..NUM_JOINT_DOFS -> ConvertValues] \cup {<<1, 2>>}
ConvertTargets == {EmptyMap, [id \in JointIds |-> IF id = "j1" THEN <<9, 9>> ELSE <<>>]}
ConvertMaps ==
  { [id \in JointIds |-> IF id = "j1" THEN <<1>> ELSE <<2, 3>>],
    [id \in JointIds |-> <<1>>],
    [id \in {"j2"} |-> <<2, 3>>] }

NextConvert ==
  \/ \E vec \in ConvertInputs, m \in ConvertTargets : convert_from_generalized_call(vec, m)
  \/ /\ last.op = "convert_from_generalized" /\ thrown = NoError
     /\ convert_to_generalized_call(ret)
  \/ \E m \in ConvertMaps : convert_to_generalized_call(m)

SpecConvert == InitRead /\ [][NextConvert]_vars

\* C11: for every generalized vector g of NUM_JOINT_DOFS rows,
\* convert_from_generalized(g) into a per-joint map followed by
\* convert_to_generalized of that map succeeds and yields g again.
C11_ConvertRoundTrip ==
  [][ (/\ last.op = "convert_from_generalized" /\ thrown = NoError
       /\ last'.op = "convert_to_generalized" /\ last'.arg = ret)
      => thrown' = NoError /\ ret' = last.arg ]_vars

\* C11 witness: <<1, 2, 3>> came back through the per-joint map of a
\* joint-to-coordinate map that permutes the coordinates
C11_Witness ==
  /\ last.op = "convert_to_generalized"
  /\ _id_dof_coord_map["j2"] = <<2, 0>>
  /\ last.arg = [id \in JointIds |-> IF id = "j1" THEN <<2>> ELSE <<3, 1>>]
  /\ thrown = NoError
  /\ ret = <<1, 2, 3>>

(***************************************************************************)
(* SpecBase: base and base-augmented writes of both lengths and two values *)
(* under a position unit and a spatial unit, and the reads of them.        *)
(***************************************************************************)
MaxBaseWrites == 2
BaseValueInputs == {Fill(NSPATIAL, 1), Fill(NEULER, 1), Fill(NSPATIAL, 2), Fill(NEULER, 2)}

NextBase ==
  \/ /\ nwrites < MaxBaseWrites
     /\ nwrites' = nwrites + 1
     /\ \/ \E u \in ReadUnits, vec \in BaseValueInputs : set_base_value(u, vec)
        \/ \E u \in ReadUnits, vec \in GeneralizedInputs : set_generalized_value(u, vec)
  \/ /\ UNCHANGED nwrites
     /\ \/ \E u \in ReadUnits : get_generalized_value(u)
        \/ \E u \in ReadUnits : get_base_value(u)
        \/ increment_phase_call(INCREMENT)
        \/ reset_phase

SpecBase == Init /\ [][NextBase]_vars

\* C12: after init_state and any following setter, reset_state and read
\* operations, successful or failed, every joint id present in the state
\* store under any unit holds a vector of as many rows as the joint has DOFs.
C12_JointVectorLengths ==
  \A u \in Units : \A id \in (DOMAIN _state[u]) \cap JointIds :
    Len(_state[u][id]) = JointDofs[id]

\* the rows of a base vector under unit u
ExpectedBaseRows(u) == IF u \in {position, position_goal} THEN 7 ELSE 6

\* C13: get_generalized_value returns NUM_JOINT_DOFS + 7 rows for position
\* and position_goal and NUM_JOINT_DOFS + 6 rows for every other unit, and
\* set_base_value rejects a base vector that has not 7 rows (position
\* units) or 6 rows (other units) and leaves the stored base state unchanged.
C13_BaseAugmentedLengths ==
  [][ \A u \in Units :
        /\ (last'.op = "get_generalized_value" /\ last'.u = u)
           => thrown' = NoError /\ Len(ret') = NUM_JOINT_DOFS + ExpectedBaseRows(u)
        /\ (last'.op = "set_base_value" /\ last'.u = u
              /\ Len(last'.arg) # ExpectedBaseRows(u))
           => thrown' # NoError /\ _base_state' = _base_state
    ]_vars

\* C13 witness: a base position of 6 rows was rejected for its length and
\* the base position of 7 rows stored before it is still there
C13_Witness ==
  /\ last.op = "set_base_value" /\ last.u = position
  /\ last.arg = Fill(6, 2)
  /\ thrown = Missized
  /\ _base_state[position] = Fill(7, 1)

\* C14: contacts live for one tick: whenever a new tick begins, the phase
\* going from WAITING to PERCEPTION, the contact map holds no contact added
\* during an earlier tick, that is, none of the contacts added before.
C14_ContactsLiveOneTick ==
  [][ (controller_phase = WAITING /\ controller_phase' = PERCEPTION)
      => ContactsIn(_id_contacts_map') = {} ]_vars

(***************************************************************************)
(* The keyed data map                                                      *)
(***************************************************************************)
KeyNotFound == "KeyNotFound"
TypeMismatch == "TypeMismatch"
PointerRefused == "PointerRefused"

\* pthread_mutex_lock returns once the mutex is not held; lock and unlock
\* are compiled out of a build without USE_THREADS
CanLock(m) == m # Held
Locked(m) == IF m = NoMutex THEN NoMutex ELSE Held
Unlocked(m) == IF m = NoMutex THEN NoMutex ELSE Free

\* a boost::any holding value v of type T
any(T, v) == [type |-> T, value |-> v]

\* is_pointer<T>::value
is_pointer(T) == T \in {"double*"}

\* set_data_internal(n, to_append): stores the value under n and returns
\* true if the key is new
set_data_internal(n, to_append) ==
  /\ CanLock(_data_map_mutex)
  /\ _data_map' = Put(_data_map, n, to_append)
  /\ UNCHANGED _data_map_mutex
  /\ Returns("set_data", NoUnit, <<n, to_append>>, NoError, n \notin DOMAIN _data_map)

\* set_data<T>(n, v)
set_data(T, n, v) ==
  /\ IF is_pointer(T)
     THEN /\ UNCHANGED dataVars
          /\ Returns("set_data", NoUnit, <<n, any(T, v)>>, PointerRefused, NoRet)
     ELSE set_data_internal(n, any(T, v))
  /\ UNCHANGED <<controller_phase, storeVars, _id_contacts_map, _id_dof_coord_map,
                 ncontacts, nwrites, threadVars>>

remove_data(n) ==
  /\ CanLock(_data_map_mutex)
  /\ _data_map' = [k \in (DOMAIN _data_map) \ {n} |-> _data_map[k]]
  /\ _data_map_mutex' = Unlocked(Locked(_data_map_mutex))
  /\ Returns("remove_data", NoUnit, n, NoError, NoRet)
  /\ UNCHANGED <<controller_phase, storeVars, _id_contacts_map, _id_dof_coord_map,
                 ncontacts, nwrites, threadVars>>

\* a get_data that hands out an empty value for a name it does not find
data_read_default(T, n, m, mutex) ==
  IF n \in DOMAIN m
  THEN IF m[n].type = T
       THEN [thrown |-> NoError, val |-> m[n].value, mutex |-> Unlocked(Locked(mutex))]
       ELSE [thrown |-> TypeMismatch, val |-> NoRet, mutex |-> Locked(mutex)]
  ELSE [thrown |-> NoError, val |-> <<>>, mutex |-> Unlocked(Locked(mutex))]

\* the outcome of get_data<T>(n) on the data map m: the bad_any_cast branch
\* throws between the lock and the unlock
data_read(T, n, m, mutex) ==
  IF n \in DOMAIN m
  THEN IF m[n].type = T
       THEN [thrown |-> NoError, val |-> m[n].value, mutex |-> Unlocked(Locked(mutex))]
       ELSE [thrown |-> TypeMismatch, val |-> NoRet, mutex |-> Locked(mutex)]
  ELSE [thrown |-> KeyNotFound, val |-> NoRet, mutex |-> Unlocked(Locked(mutex))]

\* T get_data<T>(n)
get_data(T, n) ==
  LET r == data_read(T, n, _data_map, _data_map_mutex) IN
  /\ CanLock(_data_map_mutex)
  /\ _data_map_mutex' = r.mutex
  /\ Returns("get_data", NoUnit, <<T, n>>, r.thrown, r.val)
  /\ UNCHANGED <<_data_map, controller_phase, storeVars, _id_contacts_map,
                 _id_dof_coord_map, ncontacts, nwrites, threadVars>>

\* bool get_data<T>(n, val): catches the runtime_error of get_data<T>(n)
get_data_try(T, n, val) ==
  LET r == data_read(T, n, _data_map, _data_map_mutex) IN
  /\ CanLock(_data_map_mutex)
  /\ _data_map_mutex' = r.mutex
  /\ Returns("get_data_try", NoUnit, <<T, n, val>>, NoError,
             IF r.thrown = NoError
             THEN [ok |-> TRUE, val |-> r.val]
             ELSE [ok |-> FALSE, val |-> val])
  /\ UNCHANGED <<_data_map, controller_phase, storeVars, _id_contacts_map,
                 _id_dof_coord_map, ncontacts, nwrites, threadVars>>

(***************************************************************************)
(* SpecData: the data map of a build with and of a build without           *)
(* USE_THREADS, two names, values of two types and a pointer type.         *)
(***************************************************************************)
DataTypes == {"double", "int", "double*"}
DataKeys == {"a", "b"}
DataValues == {1, 2}
TryValues == {0}

InitData ==
  /\ ConstructedStore([id \in JointIds |-> IF id = "j1" THEN <<2>> ELSE <<0, 1>>])
  /\ _data_map = EmptyMap
  /\ \E m \in {NoMutex, Free} : _data_map_mutex = m /\ _state_mutex = m
  /\ threads = EmptyMap

NextData ==
  \/ \E T \in DataTypes, n \in DataKeys, v \in DataValues : set_data(T, n, v)
  \/ \E n \in DataKeys : remove_data(n)
  \/ \E T \in DataTypes, n \in DataKeys : get_data(T, n)
  \/ \E T \in DataTypes, n \in DataKeys, val \in TryValues : get_data_try(T, n, val)

SpecData == InitData /\ [][NextData]_vars

\* C15: get_data<T>(n) fails with a key-not-found error when n was never
\* set or was removed by remove_data, and with a type-mismatch error when n
\* holds a value of another type than T; both leave the data map as it
\* was, and get_data(n, val) then returns false and leaves val unchanged.
C15_DataMapReads ==
  [][ \A T \in DataTypes, n \in DataKeys :
        LET missing == n \notin DOMAIN _data_map
            other == n \in DOMAIN _data_map /\ _data_map[n].type # T
        IN
        /\ (last'.op = "get_data" /\ last'.arg = <<T, n>>)
           => /\ missing => thrown' = KeyNotFound /\ _data_map' = _data_map
              /\ other => thrown' = TypeMismatch /\ _data_map' = _data_map
        /\ (last.op = "remove_data" /\ last.arg = n
              /\ last'.op = "get_data" /\ last'.arg = <<T, n>>)
           => thrown' = KeyNotFound
        /\ \A val \in TryValues :
             (last'.op = "get_data_try" /\ last'.arg = <<T, n, val>>
                /\ (missing \/ other))
             => /\ thrown' = NoError
                /\ ret' = [ok |-> FALSE, val |-> val]
                /\ _data_map' = _data_map
    ]_vars

\* C15 witness: "a" holds an int, was asked for as a double, and
\* get_data(n, val) returned false with val as it was
C15_Witness ==
  /\ last.op = "get_data_try" /\ last.arg = <<"double", "a", 0>>
  /\ "a" \in DOMAIN _data_map /\ _data_map["a"] = any("int", 1)
  /\ ret = [ok |-> FALSE, val |-> 0]

\* C28: every operation of the store releases the mutex it took before it
\* returns or fails: between two operations the data map's mutex is never
\* held, so that an operation that follows a failed one can acquire it.
C28_MutexReleasedOnFailure ==
  _data_map_mutex # Held

\* the step is a joint write under unit u with a vector of a wrong length
MissizedJointWrite(u) ==
  /\ last'.u = u
  /\ \/ /\ last'.op = "set_joint_value"
        /\ Len(last'.arg[2]) # Len(At(_state[u], last'.arg[1], <<>>))
     \/ /\ last'.op = "set_joint_generalized_value"
        /\ Len(last'.arg) # NUM_JOINT_DOFS

\* C16, as stated: a joint write with a vector of a wrong length fails with
\* a size-mismatch error and leaves the stored values of every joint and
\* unit unchanged.
C16_MissizedWriteFailsUnchanged ==
  [][ \A u \in Units :
        MissizedJointWrite(u)
        => /\ thrown' = Missized
           /\ \A v \in Units : \A id \in DOMAIN _state[v] :
                id \in DOMAIN _state'[v] /\ _state'[v][id] = _state[v][id]
    ]_vars

\* C16, amended: a joint write with a vector of a wrong length fails, with
\* a phase violation when the phase refuses the unit and with a
\* size-mismatch error otherwise, and leaves every vector in the store as
\* it was; the one change it can make to the store is the empty vector
\* set_joint_value inserts for a joint that had none under the unit.
C16_MissizedWriteFails ==
  [][ \A u \in Units :
        MissizedJointWrite(u)
        => /\ thrown' = IF last'.pre \in Refused(u) THEN PhaseViolation ELSE Missized
           /\ \A v \in Units : \A id \in DOMAIN _state[v] :
                id \in DOMAIN _state'[v] /\ _state'[v][id] = _state[v][id]
           /\ \A v \in Units : \A id \in (DOMAIN _state'[v]) \ (DOMAIN _state[v]) :
                /\ last'.op = "set_joint_value" /\ v = u /\ id = last'.arg[1]
                /\ _state'[v][id] = <<>>
           /\ UNCHANGED <<_base_state, _foot_state, _foot_is_set>>
    ]_vars

\* C16 witness: two rows for the one-DOF joint j1 were refused in PERCEPTION
\* and its position is the one init_state set
C16_Witness ==
  /\ last.op = "set_joint_value" /\ last.u = position /\ last.pre = PERCEPTION
  /\ last.arg = <<"j1", <<1, 1>>>>
  /\ thrown = Missized
  /\ _state[position]["j1"] = <<0>>

(***************************************************************************)
(* The state store used by several threads (a build with USE_THREADS).     *)
(* set_joint_generalized_value and get_joint_generalized_value run a step  *)
(* at a time: the phase and size checks, pthread_mutex_lock, one joint of  *)
(* the loop per step, pthread_mutex_unlock.  The getter takes no mutex.    *)
(***************************************************************************)
Threads == {"sensor", "tick"}
Idle == [pc |-> "idle", u |-> NoUnit, arg |-> <<>>, i |-> 0, vec |-> <<>>, pre |-> NoUnit]

\* thread t goes on to be th; nothing returns
Continues(t, th) ==
  /\ threads' = [threads EXCEPT ![t] = th]
  /\ UNCHANGED <<last, thrown, ret, added, quadVars, plannerVars, lockVars, frictVars>>

\* thread t ends its operation
Finishes(t, op, exc, val) ==
  /\ threads' = [threads EXCEPT ![t] = Idle]
  /\ Returns(op, threads[t].u, threads[t].arg, exc, val)

\* check_phase(u) and the check of generalized_vec.rows()
set_joint_generalized_value_begin(t, u, vec) ==
  LET c == check_phase(u, controller_phase) IN
  /\ threads[t].pc = "idle"
  /\ IF c.thrown # NoError
     THEN /\ UNCHANGED controller_phase
          /\ threads' = threads
          /\ Returns("set_joint_generalized_value", u, vec, c.thrown, NoRet)
     ELSE /\ controller_phase' = c.phase
          /\ IF Len(vec) # NUM_JOINT_DOFS
             THEN /\ threads' = threads
                  /\ Returns("set_joint_generalized_value", u, vec, Missized, NoRet)
             ELSE Continues(t, [pc |-> "set_lock", u |-> u, arg |-> vec, i |-> 1,
                                vec |-> <<>>, pre |-> controller_phase])
  /\ UNCHANGED <<storeVars, _id_contacts_map, _id_dof_coord_map, ncontacts, dataVars,
                 _state_mutex>>

\* pthread_mutex_lock(&_state_mutex)
set_joint_generalized_value_lock(t) ==
  /\ threads[t].pc = "set_lock"
  /\ CanLock(_state_mutex)
  /\ _state_mutex' = Locked(_state_mutex)
  /\ Continues(t, [threads[t] EXCEPT !.pc = "set_loop"])
  /\ UNCHANGED <<controller_phase, storeVars, _id_contacts_map, _id_dof_coord_map,
                 ncontacts, dataVars, nwrites>>

\* one joint of the loop: the size check, then the rows of the joint; the
\* throw leaves the mutex held
set_joint_generalized_value_step(t) ==
  LET th == threads[t]
      key == _joint_ids[th.i]
      dof == _id_dof_coord_map[key]
  IN
  /\ th.pc = "set_loop"
  /\ th.i <= Len(_joint_ids)
  /\ IF Len(dof) # Len(JointVec(_state, th.u, key))
     THEN /\ _state' = Touch(_state, th.u, key)
          /\ Finishes(t, "set_joint_generalized_value", Missized, NoRet)
     ELSE /\ _state' = PutJoint(_state, th.u, key, joint_rows(th.arg, dof))
          /\ Continues(t, [th EXCEPT !.i = th.i + 1])
  /\ UNCHANGED <<controller_phase, _base_state, _foot_state, _foot_is_set,
                 _id_contacts_map, _id_dof_coord_map, ncontacts, dataVars,
                 _state_mutex, nwrites>>

\* pthread_mutex_unlock(&_state_mutex) and the return
set_joint_generalized_value_unlock(t) ==
  /\ threads[t].pc = "set_loop"
  /\ threads[t].i > Len(_joint_ids)
  /\ _state_mutex' = Unlocked(_state_mutex)
  /\ Finishes(t, "set_joint_generalized_value", NoError, NoRet)
  /\ UNCHANGED <<controller_phase, storeVars, _id_contacts_map, _id_dof_coord_map,
                 ncontacts, dataVars, nwrites>>

\* generalized_vec.set_zero(NUM_JOINT_DOFS)
get_joint_generalized_value_begin(t, u) ==
  /\ threads[t].pc = "idle"
  /\ Continues(t, [pc |-> "get_loop", u |-> u, arg |-> <<>>, i |-> 1,
                   vec |-> Zeros(NUM_JOINT_DOFS), pre |-> controller_phase])
  /\ UNCHANGED <<controller_phase, storeVars, _id_contacts_map, _id_dof_coord_map,
                 ncontacts, dataVars, _state_mutex>>

\* one entry of _state[u] copied into generalized_vec
get_joint_generalized_value_step(t) ==
  LET th == threads[t]
      key == _joint_ids[th.i]
      dof == _id_dof_coord_map[key]
      dof_val == JointVec(_state, th.u, key)
  IN
  /\ th.pc = "get_loop"
  /\ th.i <= Len(_joint_ids)
  /\ Continues(t, [th EXCEPT !.i = th.i + 1,
                             !.vec = [c \in 1..Len(th.vec) |->
                                        IF \E j \in 1..Len(dof_val) : dof[j] + 1 = c
                                        THEN dof_val[CHOOSE j \in 1..Len(dof_val) : dof[j] + 1 = c]
                                        ELSE th.vec[c]]])
  /\ UNCHANGED <<controller_phase, storeVars, _id_contacts_map, _id_dof_coord_map,
                 ncontacts, dataVars, _state_mutex, nwrites>>

get_joint_generalized_value_end(t) ==
  /\ threads[t].pc = "get_loop"
  /\ threads[t].i > Len(_joint_ids)
  /\ Finishes(t, "get_joint_generalized_value", NoError, threads[t].vec)
  /\ UNCHANGED <<controller_phase, storeVars, _id_contacts_map, _id_dof_coord_map,
                 ncontacts, dataVars, _state_mutex, nwrites>>

(***************************************************************************)
(* SpecThreads: two threads, each calling the generalized joint setter and *)
(* getter on one unit.                                                     *)
(***************************************************************************)
MaxThreadOps == 3
ThreadUnits == {position}
ThreadInputs == {<<1, 1, 1>>, <<2, 2, 2>>, <<1, 1>>}

InitThreads ==
  /\ ConstructedStore([id \in JointIds |-> IF id = "j1" THEN <<2>> ELSE <<0, 1>>])
  /\ _data_map = EmptyMap
  /\ _data_map_mutex = Free
  /\ _state_mutex = Free
  /\ threads = [t \in Threads |-> Idle]

NextThreads ==
  \/ /\ nwrites < MaxThreadOps
     /\ nwrites' = nwrites + 1
     /\ \/ \E t \in Threads, u \in ThreadUnits, vec \in ThreadInputs :
             set_joint_generalized_value_begin(t, u, vec)
        \/ \E t \in Threads, u \in ThreadUnits : get_joint_generalized_value_begin(t, u)
  \/ \E t \in Threads : set_joint_generalized_value_lock(t)
  \/ \E t \in Threads : set_joint_generalized_value_step(t)
  \/ \E t \in Threads : set_joint_generalized_value_unlock(t)
  \/ \E t \in Threads : get_joint_generalized_value_step(t)
  \/ \E t \in Threads : get_joint_generalized_value_end(t)

SpecThreads == InitThreads /\ [][NextThreads]_vars

\* C17: with several threads calling set and get concurrently, every read
\* of a joint vector returns a value that one single write stored in full,
\* or the initial value, never a mixture of the components of two writes.
C17_ReadsSeeWholeWrites ==
  last.op = "get_joint_generalized_value"
  => ret \in {Zeros(NUM_JOINT_DOFS)} \cup {vec \in ThreadInputs : Len(vec) = NUM_JOINT_DOFS}

(***************************************************************************)
(* SpecPhases: two threads in one control cycle, the sensor thread writing *)
(* a measured unit and the tick thread a goal unit through the generalized *)
(* joint setter; either may call reset_phase between its writes.           *)
(***************************************************************************)
\* reset_phase() called by thread t between two of its operations
reset_phase_by(t) ==
  /\ threads[t].pc = "idle"
  /\ controller_phase' = PERCEPTION
  /\ threads' = threads
  /\ Returns("reset_phase", NoUnit, <<>>, NoError, NoRet)
  /\ UNCHANGED <<storeVars, _id_contacts_map, _id_dof_coord_map, ncontacts, dataVars,
                 _state_mutex>>

\* the unit each thread writes
PhaseUnits == [t \in Threads |-> IF t = "sensor" THEN position ELSE position_goal]
PhaseInputs == {<<1, 1, 1>>, <<2, 2, 2>>}

NextPhases ==
  \/ /\ nwrites < MaxThreadOps
     /\ nwrites' = nwrites + 1
     /\ \/ \E t \in Threads, vec \in PhaseInputs :
             set_joint_generalized_value_begin(t, PhaseUnits[t], vec)
        \/ \E t \in Threads : reset_phase_by(t)
  \/ \E t \in Threads : set_joint_generalized_value_lock(t)
  \/ \E t \in Threads : set_joint_generalized_value_step(t)
  \/ \E t \in Threads : set_joint_generalized_value_unlock(t)

SpecPhases == InitThreads /\ [][NextPhases]_vars

\* C29: a write to a measured unit whose phase check passed in PERCEPTION
\* never stores a value after another thread has advanced the phase to
\* PLANNING or CONTROL.
C29_MeasuredWriteLandsInPerception ==
  [][ \A t \in Threads :
        (/\ threads[t].pc = "set_loop"
         /\ threads'[t] # threads[t]
         /\ threads[t].u \in MeasuredUnits
         /\ threads[t].pre = PERCEPTION
         /\ _state'[threads[t].u] # _state[threads[t].u])
        => controller_phase \notin {PLANNING, CONTROL} ]_vars

(***************************************************************************)
(* One tick of the Quadruped: Quadruped::control, a step at a time in the  *)
(* order of its statements.  The tick is run by one thread.                *)
(***************************************************************************)
NumericFailure == "NumericFailure"

\* the state store, which a tick of this controller does not use
robotVars ==
  <<controller_phase, storeVars, _id_contacts_map, _id_dof_coord_map, nwrites,
    ncontacts, added, dataVars, threadVars, plannerVars, lockVars, frictVars>>

\* what Robot::update asks of the dynamics engine: the contact Jacobians, the
\* inertia and forces, the centre of mass, the base pose, the foot Jacobians
UpdateQueries ==
  {"calc_contact_jacobians", "calculate_dyn_properties", "calc_com", "get_pose",
   "calc_eef_jacobians"}

\* an update that counts every end effector
update_counts_all(active, written) ==
  /\ NC' = NUM_EEFS
  /\ queries' = {[what |-> w, poses |-> link_poses, written |-> written] :
                   w \in UpdateQueries}

\* Robot::update, called when the active end effectors are `active`: NC is
\* counted, and each query reads the link poses the engine holds
update(active, written) ==
  /\ NC' = Cardinality(active)
  /\ queries' = {[what |-> w, poses |-> link_poses, written |-> written] :
                   w \in UpdateQueries}

\* Utility::check_finite: NumericFailure when an element is NaN or infinite
check_finite(v) ==
  IF \A i \in 1..Len(v) : isfinite(v[i]) THEN NoError ELSE NumericFailure

\* the torques one joint's row of the inverse dynamics solution can hold
Torques(i) ==
  {Fin(0), Fin(torque_limits_[i]), Fin(torque_limits_[i] + 1),
   Fin(-(torque_limits_[i] + 1)), NaN, Inf(1)}

\* the vectors inverse_dynamics can leave in id
inverse_dynamics ==
  {id \in [1..NUM_JOINTS -> UNION {Torques(i) : i \in 1..NUM_JOINTS}] :
     \A i \in 1..NUM_JOINTS : id[i] \in Torques(i)}

\* the feedback eef_stiffness_fb can leave in ufb
eef_stiffness_fb == inverse_dynamics

alpha == 1

\* the outputs PID::control can leave in its last argument
PID_control == {set_zero(NUM_JOINTS), [i \in 1..NUM_JOINTS |-> Fin(100)]}

\* what a step of the controller records of the operation it belongs to
Records(op, arg, exc, val) ==
  /\ last' = [op |-> op, u |-> NoUnit, arg |-> arg, pre |-> controller_phase]
  /\ thrown' = exc
  /\ ret' = val

\* the driver reports a contact of end effector e between two ticks:
\* eefs_[e].active = true
activate(e) ==
  /\ control_pc = "idle"
  /\ e \notin eefs_
  /\ eefs_' = eefs_ \cup {e}
  /\ Records("activate", e, NoError, NoRet)
  /\ UNCHANGED <<control_pc, args, joints_, link_poses, NC, uff, ufb, u_, queries,
                 qdd_des, robotVars>>

\* the loop `for(i=0,ii=0;i<NC;i++,ii++){ while(!eefs_[ii].active) ii++; .. }`
\* from its i-th round on, ii counted from 0: the indices of eefs_ its rounds
\* read, and whether the while ran past the last element of eefs_
RECURSIVE active_loop(_, _, _, _)
active_loop(active, nc, i, ii) ==
  IF i >= nc
  THEN NoLoop
  ELSE LET rest == {k \in ii..(NUM_EEFS - 1) : eef_names_[k + 1] \in active} IN
       IF rest = {}
       THEN [overrun |-> TRUE, visited |-> <<>>]
       ELSE LET k == CHOOSE k \in rest : \A l \in rest : k <= l
                r == active_loop(active, nc, i + 1, k + 1)
            IN  [overrun |-> r.overrun, visited |-> <<k>> \o r.visited]

\* Quadruped::control is entered with the joint coordinates q; Robot::update
\* runs first, then the loop over the contact impulses
control_enter(q) ==
  /\ control_pc = "idle"
  /\ control_pc' = "updated"
  /\ update(eefs_, FALSE)
  /\ args' = [q |-> q, active |-> eefs_, written |-> FALSE, pid |-> <<>>, id |-> <<>>,
               contact_loop |-> active_loop(eefs_, NC', 0, 0), idyn_loop |-> NoLoop]
  /\ Records("control", q, NoError, NoRet)
  /\ UNCHANGED <<joints_, link_poses, eefs_, uff, ufb, u_, qdd_des, robotVars>>

\* uff, ufb, u and the goals are zeroed, q is written into the joints of the
\* engine and update_link_poses is called
control_write_q ==
  /\ control_pc = "updated"
  /\ control_pc' = "posed"
  /\ uff' = set_zero(NUM_JOINTS)
  /\ ufb' = set_zero(NUM_JOINTS)
  /\ u_' = set_zero(NUM_JOINTS)
  /\ qdd_des' = set_zero(NUM_JOINTS)
  /\ joints_' = args.q
  /\ link_poses' = args.q
  /\ args' = [args EXCEPT !.written = TRUE]
  /\ UNCHANGED <<eefs_, NC, queries, last, thrown, ret, robotVars>>

\* the planner, the stabilizer and the feedback: eef_stiffness_fb writes ufb,
\* PID::control writes qdd_des; check_finite(ufb) ends the tick when it throws
control_feedback ==
  /\ control_pc = "posed"
  /\ IF TRUNK_STABILIZATION THEN \E id \in inverse_dynamics : uff' = add_to(uff, id)
                            ELSE UNCHANGED uff
  /\ IF PARALLEL_STIFFNESS
     THEN ufb' \in eef_stiffness_fb /\ UNCHANGED <<qdd_des, args>>
     ELSE /\ qdd_des' \in PID_control
          /\ args' = [args EXCEPT !.pid = qdd_des']
          /\ UNCHANGED ufb
  /\ thrown' = check_finite(ufb')
  /\ control_pc' = IF thrown' = NoError THEN "fed_back" ELSE "idle"
  /\ UNCHANGED <<joints_, link_poses, eefs_, NC, u_, queries, last, ret,
                 robotVars>>

\* the inverse dynamics solution id is added to the feed-forward torque
control_idyn(id) ==
  /\ control_pc = "fed_back"
  /\ control_pc' = "fed_forward"
  /\ uff' = IF CONTROL_IDYN THEN add_to(uff, scale(id, alpha)) ELSE uff
  /\ args' = [args EXCEPT !.id = id,
                          !.idyn_loop = IF CONTROL_IDYN THEN active_loop(eefs_, NC, 0, 0)
                                        ELSE NoLoop]
  /\ UNCHANGED <<joints_, link_poses, eefs_, NC, ufb, u_, queries, qdd_des,
                 last, thrown, ret, robotVars>>

\* the tick's end without the check of uff
control_emit_unchecked ==
  /\ control_pc = "fed_forward"
  /\ control_pc' = "idle"
  /\ thrown' = NoError
  /\ u_' = add_to(ufb, uff)
  /\ joints_' = args.q
  /\ link_poses' = args.q
  /\ NC' = 0
  /\ eefs_' = {}
  /\ ret' = u_'
  /\ UNCHANGED <<args, uff, ufb, queries, qdd_des, last, robotVars>>

\* the tick's end without the loop that deactivates the contacts
control_emit_contacts_kept ==
  /\ control_pc = "fed_forward"
  /\ control_pc' = "idle"
  /\ thrown' = check_finite(uff)
  /\ IF thrown' # NoError
     THEN UNCHANGED <<u_, joints_, link_poses, ret>>
     ELSE /\ u_' = add_to(ufb, uff)
          /\ joints_' = args.q
          /\ link_poses' = args.q
          /\ ret' = u_'
  /\ UNCHANGED <<args, uff, ufb, queries, qdd_des, last, NC, eefs_, robotVars>>

\* check_finite(uff) ends the tick when it throws; otherwise u = ufb + uff,
\* q is written into the engine once more, the contacts are deactivated and
\* u is returned
control_emit ==
  /\ control_pc = "fed_forward"
  /\ control_pc' = "idle"
  /\ thrown' = check_finite(uff)
  /\ IF thrown' # NoError
     THEN UNCHANGED <<u_, joints_, link_poses, NC, eefs_, ret>>
     ELSE /\ u_' = add_to(ufb, uff)
          /\ joints_' = args.q
          /\ link_poses' = args.q
          /\ NC' = 0
          /\ eefs_' = {}
          /\ ret' = u_'
  /\ UNCHANGED <<args, uff, ufb, queries, qdd_des, last, robotVars>>

\* the joint coordinates a tick is called with
TickCoordinates == {[i \in 1..NUM_JOINTS |-> 0], [i \in 1..NUM_JOINTS |-> 1]}

NextControl ==
  \/ \E e \in {eef_names_[i] : i \in 1..NUM_EEFS} : activate(e)
  \/ \E q \in TickCoordinates : control_enter(q)
  \/ control_write_q
  \/ control_feedback
  \/ \E id \in inverse_dynamics : control_idyn(id)
  \/ control_emit

SpecControl == Init /\ [][NextControl]_vars

\* a tick has returned a torque
Returned == last.op = "control" /\ control_pc = "idle" /\ thrown = NoError

abs(x) == IF x < 0 THEN -x ELSE x

\* C18: whenever a tick of Quadruped::control has returned, the torque of
\* every joint is within that joint's torque limit: |u[i]| <= torque_limits_[i].
C18_TorqueWithinLimits ==
  Returned
  => \A i \in 1..NUM_JOINTS : isfinite(u_[i]) /\ abs(u_[i].v) <= torque_limits_[i]

\* a tick has ended, by returning or by throwing
TickEnded == last.op = "control" /\ control_pc = "idle"

NonFinite(v) == \E i \in 1..Len(v) : ~isfinite(v[i])

\* C19: when a tick of Quadruped::control has ended, every element of u is
\* finite; the tick ended with NumericFailure exactly when ufb or uff held a
\* NaN or an infinity, and then it returned nothing and u is still zero.
C19_EmittedTorqueFinite ==
  TickEnded
  => /\ \A i \in 1..NUM_JOINTS : isfinite(u_[i])
     /\ (thrown = NumericFailure) <=> (NonFinite(ufb) \/ NonFinite(uff))
     /\ thrown = NumericFailure => (ret = NoRet /\ u_ = set_zero(NUM_JOINTS))
     /\ thrown = NoError => ret = u_

\* a tick whose inverse dynamics left a NaN in uff was stopped, and a later
\* state shows u zero
C19_Witness ==
  /\ TickEnded
  /\ thrown = NumericFailure
  /\ uff[1] = NaN
  /\ u_ = set_zero(NUM_JOINTS)

\* C20: every query of the engine's kinematics made in a tick (the contact
\* and foot Jacobians, the inertia, the centre of mass) was made after the
\* tick wrote q into the engine and called update_link_poses.
C20_QueriesAfterWrite ==
  \A r \in queries : r.written

\* C26: with parallel stiffness disabled, the torque a tick returns is
\* u = ufb + alpha * uff, where ufb is the output of the PID controller of
\* this tick and uff the feed-forward torque of the inverse dynamics.
C26_FeedbackPlusFeedForward ==
  (Returned /\ ~PARALLEL_STIFFNESS)
  => /\ ufb = args.pid
     /\ uff = scale(args.id, alpha)
     /\ u_ = add_to(args.pid, scale(args.id, alpha))

\* C27: when a tick returns, NC is 0 and no end effector is active; an end
\* effector becomes active again only by a step of the driver, outside the
\* tick.
C27_ContactsClearedOnReturn ==
  [][/\ (control_pc = "fed_forward" /\ control_pc' = "idle" /\ thrown' = NoError)
        => (NC' = 0 /\ eefs_' = {})
     /\ (eefs_' \ eefs_ # {}) => (last'.op = "activate" /\ control_pc = "idle")]_vars

\* a tick that was entered with two feet in contact has returned, and no
\* foot is active
C27_Witness ==
  Returned /\ Cardinality(args.active) = 2 /\ NC = 0 /\ eefs_ = {}

\* C36: the loops of Quadruped::control that visit the i-th active end
\* effector for i < NC terminate and never index eefs_ past its last
\* element: while a tick runs, NC is the number of end effectors marked
\* active, and each loop reads NC indices below NUM_EEFS.
C36_ActiveLoopsInRange ==
  control_pc # "idle"
  => /\ NC = Cardinality(eefs_)
     /\ \A loop \in {args.contact_loop} \cup
                     (IF control_pc = "fed_forward" THEN {args.idyn_loop} ELSE {}) :
          /\ ~loop.overrun
          /\ Len(loop.visited) = NC
          /\ \A j \in 1..Len(loop.visited) :
               /\ loop.visited[j] \in 0..(NUM_EEFS - 1)
               /\ eef_names_[loop.visited[j] + 1] \in eefs_

\* a tick with the second and the fourth foot in contact ran both loops
C36_Witness ==
  /\ control_pc = "fed_forward"
  /\ eefs_ = {"RF_FOOT", "RH_FOOT"}
  /\ NC = 2
  /\ args.contact_loop.visited = <<1, 3>>
  /\ args.idyn_loop.visited = <<1, 3>>

(***************************************************************************)
(* The gait tables Quadruped::init builds, one row per phase and one entry *)
(* per foot in the order of eef_names_, and the planner that reads them.   *)
(***************************************************************************)
\* a pace: the feet of one side move together
trot_pace == << <<-1, 1, -1, 1>>, <<1, -1, 1, -1>> >>

trot == << <<-1, 1, 1, -1>>, <<1, -1, -1, 1>> >>

trot2 == << <<-3, -1, -1, -3>>, <<-2, 1, 1, -2>>, <<-1, -3, -3, -1>>, <<1, -2, -2, 1>> >>

walk == << <<1, -1, -2, -3>>, <<-3, 1, -1, -2>>, <<-2, -3, 1, -1>>, <<-1, -2, -3, 1>> >>

\* a second walk whose last foot skips a count in the last phase
walk2_skipping == << <<1, -2, -3, -1>>, <<-3, -1, -2, 1>>, <<-2, 1, -1, -3>>, <<-1, -3, 1, -1>> >>

walk2 == << <<1, -2, -3, -1>>, <<-3, -1, -2, 1>>, <<-2, 1, -1, -3>>, <<-1, -3, 1, -2>> >>

Gaits == [trot |-> trot, trot2 |-> trot2, walk |-> walk, walk2 |-> walk2]

\* phase_time / STEP_SIZE: the ticks one phase lasts
phase_ticks == 10

MaxGaitTicks == 40

\* the phase index of gait table G at tick t, counted from 1
PhaseIndex(G, t) == ((t % (Len(G) * phase_ticks)) \div phase_ticks) + 1

\* the feet that row p of G holds in stance: an entry <= 0
StanceFeet(G, p) == {eef_names_[f] : f \in {f \in 1..NUM_EEFS : G[p][f] <= 0}}

\* walk_toward, called with gait table g at the tick after the last call
walk_toward(g) ==
  /\ planner.t < MaxGaitTicks
  /\ planner' = [gait |-> g, t |-> planner.t + 1,
                 stance |-> StanceFeet(Gaits[g], PhaseIndex(Gaits[g], planner.t + 1))]
  /\ Records("walk_toward", g, NoError, NoRet)
  /\ UNCHANGED <<controller_phase, storeVars, _id_contacts_map, _id_dof_coord_map,
                 nwrites, ncontacts, added, dataVars, threadVars, quadVars, frictVars,
                 lockVars>>

NextGait == \E g \in DOMAIN Gaits : walk_toward(g)

SpecGait == Init /\ [][NextGait]_vars

Diagonals == {{"LF_FOOT", "RH_FOOT"}, {"RF_FOOT", "LH_FOOT"}}

NextPhase(G, p) == (p % Len(G)) + 1

\* C21: in the trot table every phase holds exactly one diagonal pair (LF and
\* RH, or RF and LH) in stance and the other pair in swing, consecutive phases
\* hold different pairs, every foot is in stance in half of the phases, and
\* the planner reading the table at any tick holds a diagonal pair in stance.
C21_TrotDiagonalPairs ==
  /\ \A p \in 1..Len(trot) :
       /\ StanceFeet(trot, p) \in Diagonals
       /\ StanceFeet(trot, NextPhase(trot, p)) # StanceFeet(trot, p)
  /\ \A f \in 1..NUM_EEFS :
       2 * Cardinality({p \in 1..Len(trot) : trot[p][f] <= 0}) = Len(trot)
  /\ planner.gait = "trot" => planner.stance \in Diagonals

\* the planner read the second phase of the trot: RF and LH are in stance
C21_Witness ==
  /\ planner.gait = "trot"
  /\ planner.t = phase_ticks
  /\ planner.stance = {"RF_FOOT", "LH_FOOT"}

\* C38: in every built-in gait table and for every foot the stance entries
\* count down to the next swing: read cyclically over the phases, an entry
\* -k with k > 1 is followed by -(k-1), an entry -1 is followed by a swing
\* entry (> 0), and every foot has exactly one swing phase per cycle; so a
\* foot the planner reads at -1 is not a stance foot of the next phase.
C38_StanceCountsDown ==
  /\ \A g \in DOMAIN Gaits : \A f \in 1..NUM_EEFS :
       /\ \A p \in 1..Len(Gaits[g]) :
            LET e == Gaits[g][p][f]
                following == Gaits[g][NextPhase(Gaits[g], p)][f]
            IN  /\ e < -1 => following = e + 1
                /\ e = -1 => following > 0
       /\ Cardinality({p \in 1..Len(Gaits[g]) : Gaits[g][p][f] > 0}) = 1
  /\ planner.gait \in DOMAIN Gaits
     => LET G == Gaits[planner.gait]
            p == PhaseIndex(G, planner.t)
        IN  \A f \in 1..NUM_EEFS :
              G[p][f] = -1 => eef_names_[f] \notin StanceFeet(G, NextPhase(G, p))

\* the planner read the last phase of the second walk, where the left front
\* foot is at -1 and the left hind foot swings
C38_Witness ==
  /\ planner.gait = "walk2"
  /\ planner.t = 3 * phase_ticks
  /\ planner.stance = {"LF_FOOT", "RF_FOOT", "RH_FOOT"}

(***************************************************************************)
(* solve_qp (estimatefrict.cpp): matrices are sequences of rows, vectors   *)
(* sequences of integers.  The arguments are references: what solve_qp     *)
(* does to them is seen by the caller.                                     *)
(***************************************************************************)
RECURSIVE sum(_)
sum(v) == IF v = <<>> THEN 0 ELSE Head(v) + sum(Tail(v))

dot(v, w) == sum([i \in 1..Len(v) |-> v[i] * w[i]])

\* Mat::mult(v): the matrix times a vector
mult(M, v) == [i \in 1..Len(M) |-> dot(M[i], v)]

\* Mat::negate
negate(M) == [i \in 1..Len(M) |-> [j \in 1..Len(M[i]) |-> -M[i][j]]]

\* Vec::negate
negate_vec(v) == [i \in 1..Len(v) |-> -v[i]]

\* Mat::transpose of a matrix of the given number of columns
transpose(M, columns) == [j \in 1..columns |-> [i \in 1..Len(M) |-> M[i][j]]]

\* setblock(M, I, J, P, Q, m) copies the P x Q matrix m into M at row I,
\* column J, counted from 0; a call is recorded as the block it writes
block(I, J, P, Q, m) == [I |-> I, J |-> J, P |-> P, Q |-> Q, m |-> m]

\* the blocks of calls that write the entry at row ii, column jj
writers(calls, ii, jj) ==
  {k \in 1..Len(calls) :
     /\ ii \in (calls[k].I + 1)..(calls[k].I + calls[k].P)
     /\ jj \in (calls[k].J + 1)..(calls[k].J + calls[k].Q)}

\* the matrix that set_zero(rows, columns) and then the setblock calls, in
\* their order, leave: an entry holds what the last call that wrote it copied
setblock(rows, columns, calls) ==
  [ii \in 1..rows |->
     [jj \in 1..columns |->
        LET ks == writers(calls, ii, jj) IN
        IF ks = {} THEN 0
        ELSE LET k == CHOOSE k \in ks : \A l \in ks : l <= k
             IN  calls[k].m[ii - calls[k].I][jj - calls[k].J]]]

\* Vec::set_sub_vec(start, w), start counted from 0
set_sub_vec(v, start, w) ==
  [i \in 1..Len(v) |-> IF i \in (start + 1)..(start + Len(w)) THEN w[i - start] ELSE v[i]]

\* an LCP matrix with the two transposed blocks in each other's place
lcp_matrix_transposes_swapped(Q, A, n, m) ==
  LET nQ == negate(Q)
      AT == transpose(A, n)
  IN  setblock(2 * n + m, 2 * n + m,
               << block(0, 0, n, n, Q),
                  block(n, n, n, n, Q),
                  block(0, n, n, n, nQ),
                  block(n, 0, n, n, nQ),
                  block(n, n * 2, n, m, negate(AT)),
                  block(0, n * 2, n, m, AT),
                  block(n * 2, 0, m, n, A),
                  block(n * 2, n, m, n, negate(A)) >>)

\* the LCP matrix solve_qp builds, in the order of its statements
lcp_matrix(Q, A, n, m) ==
  LET nQ == negate(Q)
      AT == transpose(A, n)
  IN  setblock(2 * n + m, 2 * n + m,
               << block(0, 0, n, n, Q),
                  block(n, n, n, n, Q),
                  block(0, n, n, n, nQ),
                  block(n, 0, n, n, nQ),
                  block(n, n * 2, n, m, AT),
                  block(0, n * 2, n, m, negate(AT)),
                  block(n * 2, 0, m, n, A),
                  block(n * 2, n, m, n, negate(A)) >>)

\* an LCP vector whose last block is b as it was passed
lcp_vector_b_kept(c, b, n, m) ==
  LET q0 == [i \in 1..(2 * n + m) |-> 0]
      q1 == set_sub_vec(q0, 0, c)
      q2 == set_sub_vec(q1, n, negate_vec(c))
  IN  set_sub_vec(q2, 2 * n, b)

\* the LCP vector solve_qp builds: c, then c negated, then b negated
lcp_vector(c, b, n, m) ==
  LET q0 == [i \in 1..(2 * n + m) |-> 0]
      q1 == set_sub_vec(q0, 0, c)
      q2 == set_sub_vec(q1, n, negate_vec(c))
  IN  set_sub_vec(q2, 2 * n, negate_vec(b))

\* the largest component of an LCP solution that is looked at
MaxLcp == 2

\* z solves the LCP (MMM, qqq): z >= 0, MMM z + qqq >= 0, z'(MMM z + qqq) = 0
SolvesLcp(MMM, qqq, z) ==
  LET w == [i \in 1..Len(z) |-> dot(MMM[i], z) + qqq[i]]
  IN  /\ \A i \in 1..Len(z) : z[i] >= 0 /\ w[i] >= 0
      /\ dot(z, w) = 0

\* Moby::Optimization::lcp_lemke_regularized: it succeeds with a solution of
\* the LCP, or fails and leaves zzz zero
lcp_lemke_regularized(MMM, qqq) ==
  {[ok |-> TRUE, zzz |-> z] :
     z \in {z \in [1..Len(qqq) -> 0..MaxLcp] : SolvesLcp(MMM, qqq, z)}}
  \cup {[ok |-> FALSE, zzz |-> [i \in 1..Len(qqq) |-> 0]]}

\* what solve_qp leaves in its reference arguments: Q.negate(), A.negate(),
\* c.negate() and b.negate() are made on the arguments themselves
solve_qp_leaves(Q, c, A, b) ==
  [Q |-> negate(Q), c |-> negate_vec(c), A |-> negate(A), b |-> negate_vec(b)]

\* static bool solve_qp(Mat& Q, Vec& c, Mat& A, Vec& b, Vec& x): Q, c, A and b
\* are negated in place on the way
solve_qp(Q, c, A, b) ==
  LET n == Len(Q)
      m == Len(A)
      MMM == lcp_matrix(Q, A, n, m)
      qqq == lcp_vector(c, b, n, m)
  IN  /\ \E r \in lcp_lemke_regularized(MMM, qqq) :
           qp' = [called |-> TRUE,
                  passed |-> [Q |-> Q, c |-> c, A |-> A, b |-> b],
                  Q |-> solve_qp_leaves(Q, c, A, b).Q,
                  c |-> solve_qp_leaves(Q, c, A, b).c,
                  A |-> solve_qp_leaves(Q, c, A, b).A,
                  b |-> solve_qp_leaves(Q, c, A, b).b,
                  MMM |-> MMM, qqq |-> qqq, zzz |-> r.zzz,
                  x |-> [i \in 1..n |-> r.zzz[i] - r.zzz[n + i]],
                  SOLVE_FLAG |-> r.ok]
      /\ Records("solve_qp", <<Q, c, A, b>>, NoError, NoRet)
      /\ UNCHANGED <<controller_phase, storeVars, _id_contacts_map, _id_dof_coord_map,
                     nwrites, ncontacts, added, dataVars, threadVars, quadVars,
                     plannerVars, lockVars, v_, f_, est>>

\* the quadratic programs solve_qp is called with: two unknowns, one constraint
QpMatrices == {<< <<1, 0>>, <<0, 1>> >>, << <<1, 0>>, <<0, 2>> >>, << <<1, 1>>, <<0, 1>> >>}
QpVectors == {<<-1, 0>>, <<1, -2>>, <<0, 0>>}
QpConstraints == {<< <<1, 0>> >>, << <<-1, 1>> >>}
QpBounds == {<<-1>>, <<0>>, <<1>>}

\* one call: each call of solve_qp starts from its arguments alone
NextQp ==
  /\ ~qp.called
  /\ \E Q \in QpMatrices, c \in QpVectors, A \in QpConstraints, b \in QpBounds :
       solve_qp(Q, c, A, b)

SpecQp == Init /\ [][NextQp]_vars

\* C25 as stated: whenever solve_qp reports success, the x it returns
\* satisfies A x <= b componentwise, for the A and b that were passed.
C25_QpSolutionBelowBound ==
  (qp.called /\ qp.SOLVE_FLAG)
  => \A i \in 1..Len(qp.passed.b) : mult(qp.passed.A, qp.x)[i] <= qp.passed.b[i]

\* C25, amended: whenever solve_qp reports success, the x it returns
\* satisfies A x >= b componentwise for the A and b that were passed; in
\* terms of the negated A and b that solve_qp leaves in its arguments this
\* reads A x <= b.
C25_QpSolutionAboveBound ==
  (qp.called /\ qp.SOLVE_FLAG)
  => \A i \in 1..Len(qp.passed.b) :
       /\ mult(qp.passed.A, qp.x)[i] >= qp.passed.b[i]
       /\ mult(qp.A, qp.x)[i] <= qp.b[i]

\* a solved program whose constraint is active: x1 >= 1 moved x from the
\* unconstrained minimum (0, 0) to (1, 0)
C25_Witness ==
  /\ qp.called /\ qp.SOLVE_FLAG
  /\ qp.passed = [Q |-> << <<1, 0>>, <<0, 1>> >>, c |-> <<0, 0>>,
                  A |-> << <<1, 0>> >>, b |-> <<1>>]
  /\ qp.x = <<1, 0>>

\* C33: solve_qp leaves its arguments Q, c, A and b with the values the
\* caller passed; only the output x is written.
C33_QpArgumentsKept ==
  qp.called
  => /\ qp.Q = qp.passed.Q
     /\ qp.c = qp.passed.c
     /\ qp.A = qp.passed.A
     /\ qp.b = qp.passed.b

\* the entry at row i, column j of the matrix with the block rows
\* [Q, -Q, -A'], [-Q, Q, A'], [A, -A, 0], for Q of n x n and A of m x n
StandardLcpEntry(Q, A, n, i, j) ==
  IF i <= n
  THEN IF j <= n THEN Q[i][j]
       ELSE IF j <= 2 * n THEN -Q[i][j - n]
       ELSE -A[j - 2 * n][i]
  ELSE IF i <= 2 * n
  THEN IF j <= n THEN -Q[i - n][j]
       ELSE IF j <= 2 * n THEN Q[i - n][j - n]
       ELSE A[j - 2 * n][i - n]
  ELSE IF j <= n THEN A[i - 2 * n][j]
       ELSE IF j <= 2 * n THEN -A[i - 2 * n][j - n]
       ELSE 0

MissizeException == "MissizeException"

\* Vec operator-, on vectors of one size
minus(v, w) == [i \in 1..Len(v) |-> v[i] - w[i]]

\* Vec operator*= with a scalar
scaled(v, a) == [i \in 1..Len(v) |-> v[i] * a]

\* sqrt of a perfect square
sqrt(n) == CHOOSE r \in 0..n : r * r = n

\* a / b of two doubles that are whole numbers, b # 0
quotient(a, b) == [k |-> "finite", v |-> <<a, b>>]

\* a coefficient that counts a zero normal impulse as a contact
friction_coefficient_from_zero(cf, nc, i) ==
  IF cf[i] >= 0
  THEN IF cf[i] = 0 THEN Inf(1)
       ELSE quotient(sqrt(cf[nc + i] * cf[nc + i] + cf[nc * 2 + i] * cf[nc * 2 + i]), cf[i])
  ELSE NaN

\* MU(i,0) of contact i, from the impulses cf = (normal, first tangent,
\* second tangent), each of nc entries
friction_coefficient(cf, nc, i) ==
  IF cf[i] > 0
  THEN quotient(sqrt(cf[nc + i] * cf[nc + i] + cf[nc * 2 + i] * cf[nc * 2 + i]), cf[i])
  ELSE NaN

MaxEstimates == 4

frictFrame ==
  <<controller_phase, storeVars, _id_contacts_map, _id_dof_coord_map, nwrites,
    ncontacts, added, dataVars, threadVars, quadVars, plannerVars, lockVars, qp>>

\* Mat::transpose_mult(v): the transpose of the matrix times a vector
transpose_mult(M, columns, v) == mult(transpose(M, columns), v)

\* the identity rows of the Stage I constraint: A(i,i) = 1 for i < nc
stage1_rows(nc, n) == [i \in 1..nc |-> [j \in 1..n |-> IF i = j THEN 1 ELSE 0]]

\* double friction_estimation(v, f, dt, N, D, M, post_event, MU, cf) with nc
\* the columns of N, M the mass matrix and R = [N ST]; solved tells whether
\* the Stage I solve succeeded, P is the null space the svd returns and z
\* is what the two stages leave
friction_estimation(v, f, dt, nc, M, R, post_event, solved, P, z) ==
  LET call == [est EXCEPT !.calls = est.calls + 1, !.post_event = post_event,
                          !.nc = nc, !.v = v, !.f = f, !.dt = dt,
                          !.subtracted_v = FALSE, !.dv = <<>>,
                          !.subtracted_f = FALSE, !.j_expected = <<>>,
                          !.c = <<>>, !.stage2 = FALSE, !.P = <<>>, !.c_used = <<>>,
                          !.cP = <<>>,
                          !.completed = FALSE, !.cf = <<>>, !.MU = <<>>]
  IN
  /\ est.calls < MaxEstimates
  /\ last' = [op |-> "friction_estimation", u |-> NoUnit, arg |-> <<v, f, post_event>>,
              pre |-> controller_phase]
  /\ ret' = NoRet
  /\ UNCHANGED frictFrame
  /\ IF ~post_event
     THEN \* f_ = f
          /\ f_' = f
          /\ v_' = v_
          /\ thrown' = NoError
          /\ est' = [call EXCEPT !.pre_called = TRUE, !.pre_v = v, !.pre_f = f,
                                 !.completed = TRUE]
     ELSE IF nc = 0
     THEN \* v_ = v
          /\ v_' = v
          /\ f_' = f_
          /\ thrown' = NoError
          /\ est' = [call EXCEPT !.completed = TRUE]
     ELSE IF Len(v) # Len(v_)
     THEN \* Vec dv = v - v_ throws
          /\ UNCHANGED <<v_, f_>>
          /\ thrown' = MissizeException
          /\ est' = call
     ELSE LET dv == minus(v, v_)
              jstar == mult(M, dv)
              j_expected == scaled(f_, dt)
              n == 3 * nc
              j_error == minus(jstar, j_expected)
              Q == [i \in 1..n |-> [j \in 1..n |-> dot(transpose(R, n)[i], transpose(R, n)[j])]]
              c == negate_vec(transpose_mult(R, n, j_error))
              after == solve_qp_leaves(Q, c, stage1_rows(nc, n), [i \in 1..nc |-> 0])
              m == IF P = <<>> THEN 0 ELSE Len(P[1])
              stage2 == solved /\ m # 0
          IN
          IF Len(jstar) # Len(j_expected)
          THEN \* f_ *= dt, then jstar -= f_ throws
               /\ f_' = j_expected
               /\ v_' = v_
               /\ thrown' = MissizeException
               /\ est' = [call EXCEPT !.subtracted_v = TRUE, !.dv = dv]
          ELSE /\ f_' = j_expected
               /\ v_' = v
               /\ thrown' = NoError
               /\ est' = [call EXCEPT
                            !.subtracted_v = TRUE, !.dv = dv,
                            !.subtracted_f = TRUE, !.j_expected = j_expected,
                            !.c = c, !.stage2 = stage2,
                            !.P = IF stage2 THEN P ELSE <<>>,
                            !.c_used = IF stage2 THEN after.c ELSE <<>>,
                            !.cP = IF stage2 THEN transpose_mult(P, m, after.c) ELSE <<>>,
                            !.completed = TRUE, !.cf = z,
                            !.MU = [i \in 1..nc |-> friction_coefficient(z, nc, i)]]

\* the calls: velocities and forces of one coordinate, one contact at most
FrictVelocities == {<<0>>, <<1>>}
FrictForces == {<<1>>, <<3>>}
FrictSteps == {2}
FrictMasses == {<< <<1>> >>}
FrictJacobians == {<< <<1, 0, 0>> >>, << <<0, 1, 0>> >>}

\* the null spaces Moby::LinAlg::svd can return for R: the two columns of V
\* of the zero singular values, orthonormal, in either order
FrictNullSpaces ==
  [R \in FrictJacobians |->
     {P \in [1..3 -> [1..2 -> 0..1]] :
        /\ \A k \in 1..2 : dot(R[1], transpose(P, 2)[k]) = 0
        /\ \A k, l \in 1..2 :
             dot(transpose(P, 2)[k], transpose(P, 2)[l]) = IF k = l THEN 1 ELSE 0}]
FrictImpulses == {<<cn, s, t>> : cn \in {-1, 0, 1, 2}, s \in {0, 3}, t \in {0, 4}}

NextFrict ==
  \/ \E v \in FrictVelocities, f \in FrictForces, dt \in FrictSteps, M \in FrictMasses :
       friction_estimation(v, f, dt, 0, M, <<>>, FALSE, FALSE, <<>>, <<>>)
  \/ \E v \in FrictVelocities, f \in FrictForces, dt \in FrictSteps, M \in FrictMasses :
       friction_estimation(v, f, dt, 0, M, <<>>, TRUE, FALSE, <<>>, <<>>)
  \/ \E v \in FrictVelocities, f \in FrictForces, dt \in FrictSteps, M \in FrictMasses,
        solved \in BOOLEAN, z \in FrictImpulses :
       friction_estimation(v, f, dt, 1, M, << <<1, 0, 0>> >>, TRUE, solved,
                           << <<0, 0>>, <<1, 0>>, <<0, 1>> >>, z)

SpecFrict == Init /\ [][NextFrict]_vars

\* the calls with every Jacobian and null space, and one outcome of the solves
NextStages ==
  \/ \E v \in FrictVelocities, f \in FrictForces, dt \in FrictSteps, M \in FrictMasses :
       friction_estimation(v, f, dt, 0, M, <<>>, FALSE, FALSE, <<>>, <<>>)
  \/ \E v \in FrictVelocities, f \in FrictForces, dt \in FrictSteps, M \in FrictMasses :
       friction_estimation(v, f, dt, 0, M, <<>>, TRUE, FALSE, <<>>, <<>>)
  \/ \E v \in FrictVelocities, f \in FrictForces, dt \in FrictSteps, M \in FrictMasses,
        R \in FrictJacobians, solved \in BOOLEAN :
       \E P \in FrictNullSpaces[R] :
         friction_estimation(v, f, dt, 1, M, R, TRUE, solved, P, <<2, 3, 4>>)

SpecStages == Init /\ [][NextStages]_vars

\* the last call was a post-contact call with a contact, and a pre-contact
\* call was made before it
PostContact == est.post_event /\ est.nc > 0 /\ est.pre_called

\* C22: on every post-contact call with at least one contact, the expected
\* impulse that is subtracted from the observed impulse is dt times the
\* external force passed to the most recent pre-contact call.
C22_ExpectedImpulse ==
  (PostContact /\ est.subtracted_f) => est.j_expected = scaled(est.pre_f, est.dt)

\* C23: on every post-contact call with at least one contact, the velocity
\* subtracted from the post-contact velocity is the velocity passed to the
\* most recent pre-contact call, and the subtraction is made (the stored
\* velocity has the dimension of v), on the first such call too.
C23_PreContactVelocity ==
  PostContact => (est.subtracted_v /\ est.dv = minus(est.v, est.pre_v))

\* C32: in Stage II of friction_estimation the first inequality row passed
\* to solve_qp is P' * c, with c = -R' * j_err the same vector c that was
\* built for Stage I.
C32_StageTwoRowUsesStageOneC ==
  (est.post_event /\ est.nc > 0 /\ est.completed /\ est.stage2)
  => /\ est.c_used = est.c
     /\ est.cP = transpose_mult(est.P, Len(est.P[1]), est.c)

\* C24: in every friction estimate, for every contact i, MU(i,0) is NaN when
\* the normal impulse cf[i] is <= 0, and otherwise the norm of the two
\* tangential impulses of contact i divided by cf[i].
C24_CoefficientOrNaN ==
  (est.post_event /\ est.nc > 0 /\ est.completed)
  => \A i \in 1..est.nc :
       /\ est.cf[i] <= 0 => est.MU[i] = NaN
       /\ est.cf[i] > 0
          => \E norm \in 0..(est.cf[est.nc + i] + est.cf[2 * est.nc + i]) :
               /\ norm * norm = est.cf[est.nc + i] * est.cf[est.nc + i]
                                + est.cf[2 * est.nc + i] * est.cf[2 * est.nc + i]
               /\ est.MU[i] = [k |-> "finite", v |-> <<norm, est.cf[i]>>]

\* an estimate with normal impulse 2 and tangential impulses 3 and 4: 5 / 2
C24_Witness ==
  /\ est.post_event /\ est.nc = 1 /\ est.completed
  /\ est.cf = <<2, 3, 4>>
  /\ est.MU = <<[k |-> "finite", v |-> <<5, 2>>]>>

\* an estimate with normal impulse 0: NaN
C24_WitnessNaN ==
  /\ est.post_event /\ est.nc = 1 /\ est.completed
  /\ est.cf = <<0, 3, 4>>
  /\ est.MU = <<NaN>>

(***************************************************************************)
(* The Robot of include/Pacer/robot.h.  It keeps no controller phase: the  *)
(* flag _lock_state, which lock_state sets and unlock_state clears, guards *)
(* the measured state, and _state_mutex is a std::mutex of every build.    *)
(* SpecLock: the setters, the contact calls and the two lock calls, in any *)
(* order, with vectors of the right and of a wrong length.                 *)
(***************************************************************************)
\* calls made in one run of the lock specification
MaxLockCalls == 3

\* "Robot state has been locked after PERCEPTION plugins are called ..."
StateLocked == "StateLocked"

\* the enumerators of unit_e
unit_e(u) ==
  CASE u = position -> 0
    [] u = velocity -> 1
    [] u = acceleration -> 2
    [] u = load -> 3
    [] u = position_goal -> 4
    [] u = velocity_goal -> 5
    [] u = acceleration_goal -> 6
    [] u = load_goal -> 7

\* the test the guarded setters start with: _lock_state && u <= load
locked_for(u) == _lock_state /\ unit_e(u) <= unit_e(load)

\* the constructor leaves _lock_state as it finds it: the flag has no
\* initializer, so either value can be read from it
InitLock ==
  /\ ConstructedMaps([id \in JointIds |-> IF id = "j1" THEN <<2>> ELSE <<0, 1>>])
  /\ _lock_state \in BOOLEAN
  /\ _data_map = EmptyMap
  /\ _data_map_mutex = NoMutex
  /\ _state_mutex = Free
  /\ threads = EmptyMap

\* what a call of this Robot records when it returns or throws, and the
\* state it leaves _state_mutex in
LockEnds(op, u, arg, exc, mutex) ==
  /\ nwrites < MaxLockCalls
  /\ nwrites' = nwrites + 1
  /\ Returns(op, u, arg, exc, NoRet)
  /\ _state_mutex' = mutex
  /\ UNCHANGED <<controller_phase, _foot_state, _foot_is_set, _id_dof_coord_map,
                 dataVars, threads>>

\* what lock_state and unlock_state record: neither tests anything, neither
\* touches the store
LockFlagEnds(op) ==
  /\ nwrites < MaxLockCalls
  /\ nwrites' = nwrites + 1
  /\ last' = [op |-> op, u |-> NoUnit, arg |-> <<>>, pre |-> controller_phase]
  /\ thrown' = NoError
  /\ ret' = NoRet
  /\ UNCHANGED <<controller_phase, storeVars, _id_contacts_map, _id_dof_coord_map,
                 ncontacts, added, dataVars, threadVars, quadVars, plannerVars,
                 frictVars>>

\* lock_state()
lock_state ==
  /\ _lock_state' = TRUE
  /\ LockFlagEnds("lock_state")

\* unlock_state()
unlock_state ==
  /\ _lock_state' = FALSE
  /\ LockFlagEnds("unlock_state")

\* add_contact, both overloads: the flag is tested whatever the unit
Pacer_add_contact(id) ==
  /\ IF _lock_state
     THEN UNCHANGED <<_id_contacts_map, ncontacts>>
     ELSE /\ ncontacts' = ncontacts + 1
          /\ _id_contacts_map' =
               Put(_id_contacts_map, id,
                   Append(At(_id_contacts_map, id, <<>>),
                          create_contact(id, ncontacts + 1)))
  /\ LockEnds("add_contact", NoUnit, id,
              IF _lock_state THEN StateLocked ELSE NoError, _state_mutex)
  /\ UNCHANGED <<_state, _base_state>>

\* reset_contact()
Pacer_reset_contact ==
  /\ _id_contacts_map' = IF _lock_state THEN _id_contacts_map ELSE EmptyMap
  /\ LockEnds("reset_contact", NoUnit, <<>>,
              IF _lock_state THEN StateLocked ELSE NoError, _state_mutex)
  /\ UNCHANGED <<_state, _base_state, ncontacts>>

\* set_joint_value(id, u, dof, val).  A call that reaches _state_mutex.lock()
\* while the mutex is held by an earlier call that threw does not return.
\* The stored vector is indexed without a range check: the call is modelled
\* for indices inside it.
Pacer_set_joint_value_dof(id, u, dof, val) ==
  /\ ~locked_for(u) => /\ _state_mutex = Free
                       /\ dof < Len(JointVec(_state, u, id))
  /\ _state' = IF locked_for(u)
               THEN _state
               ELSE PutJoint(_state, u, id,
                             [JointVec(_state, u, id) EXCEPT ![dof + 1] = val])
  /\ LockEnds("set_joint_value_dof", u, <<id, dof, val>>,
              IF locked_for(u) THEN StateLocked ELSE NoError, _state_mutex)
  /\ UNCHANGED <<_base_state, _id_contacts_map, ncontacts>>

\* set_joint_value(id, u, dof_val), VectorNd and std::vector overloads: the
\* throw of "Missized dofs" leaves _state_mutex locked
Pacer_set_joint_value(id, u, dof_val) ==
  LET sized == Len(JointVec(_state, u, id)) = Len(dof_val) IN
  /\ ~locked_for(u) => _state_mutex = Free
  /\ IF locked_for(u)
     THEN /\ UNCHANGED _state
          /\ LockEnds("set_joint_value", u, <<id, dof_val>>, StateLocked, _state_mutex)
     ELSE /\ _state' = IF sized
                       THEN PutJoint(_state, u, id, dof_val)
                       ELSE Touch(_state, u, id)
          /\ LockEnds("set_joint_value", u, <<id, dof_val>>,
                      IF sized THEN NoError ELSE Missized,
                      IF sized THEN Free ELSE Held)
  /\ UNCHANGED <<_base_state, _id_contacts_map, ncontacts>>

\* set_joint_value(u, id_dof_val_map), both bulk overloads: they begin with
\* _state_mutex.lock() and do not test _lock_state
Pacer_set_joint_value_map(u, m) ==
  LET r == bulk_loop(u, m, 1, _state) IN
  /\ _state_mutex = Free
  /\ _state' = r.st
  /\ LockEnds("set_joint_value_map", u, m, r.thrown,
              IF r.thrown = NoError THEN Free ELSE Held)
  /\ UNCHANGED <<_base_state, _id_contacts_map, ncontacts>>

\* the outcome of set_joint_generalized_value(u, generalized_vec) on the
\* joint store st: the two tests come before _state_mutex.lock()
Pacer_joint_generalized_write(u, vec, st, cm) ==
  IF locked_for(u)
  THEN [thrown |-> StateLocked, st |-> st, locks |-> FALSE]
  ELSE IF Len(vec) # NUM_JOINT_DOFS
       THEN [thrown |-> Missized, st |-> st, locks |-> FALSE]
       ELSE LET r == generalized_loop(u, vec, 1, st, cm) IN
            [thrown |-> r.thrown, st |-> r.st, locks |-> TRUE]

Pacer_set_joint_generalized_value(u, vec) ==
  LET r == Pacer_joint_generalized_write(u, vec, _state, _id_dof_coord_map) IN
  /\ r.locks => _state_mutex = Free
  /\ _state' = r.st
  /\ LockEnds("set_joint_generalized_value", u, vec, r.thrown,
              IF r.locks /\ r.thrown # NoError THEN Held ELSE _state_mutex)
  /\ UNCHANGED <<_base_state, _id_contacts_map, ncontacts>>

\* the outcome of set_base_value(u, vec) on the base store bs
Pacer_base_write(u, vec, bs) ==
  IF locked_for(u)
  THEN [thrown |-> StateLocked, bs |-> bs, locks |-> FALSE]
  ELSE IF Len(vec) # BaseRows(u)
       THEN [thrown |-> Missized, bs |-> bs, locks |-> FALSE]
       ELSE [thrown |-> NoError, bs |-> [bs EXCEPT ![u] = vec], locks |-> TRUE]

Pacer_set_base_value(u, vec) ==
  LET r == Pacer_base_write(u, vec, _base_state) IN
  /\ r.locks => _state_mutex = Free
  /\ _base_state' = r.bs
  /\ LockEnds("set_base_value", u, vec, r.thrown, _state_mutex)
  /\ UNCHANGED <<_state, _id_contacts_map, ncontacts>>

\* set_generalized_value(u, generalized_vec): the base rows go to
\* set_base_value, then the joint rows to set_joint_generalized_value.
\* segment() is called for rows the vector has.
Pacer_set_generalized_value(u, vec) ==
  LET b == Pacer_base_write(u, Segment(vec, NUM_JOINT_DOFS,
                                       NUM_JOINT_DOFS + BaseRows(u)), _base_state)
      j == Pacer_joint_generalized_write(u, Segment(vec, 0, NUM_JOINT_DOFS),
                                         _state, _id_dof_coord_map)
  IN
  /\ Len(vec) >= NUM_JOINT_DOFS + BaseRows(u)
  /\ ~locked_for(u) => _state_mutex = Free
  /\ IF locked_for(u)
     THEN /\ UNCHANGED <<_state, _base_state>>
          /\ LockEnds("set_generalized_value", u, vec, StateLocked, _state_mutex)
     ELSE IF b.thrown # NoError
          THEN /\ UNCHANGED <<_state, _base_state>>
               /\ LockEnds("set_generalized_value", u, vec, b.thrown, _state_mutex)
          ELSE /\ _base_state' = b.bs
               /\ _state' = j.st
               /\ LockEnds("set_generalized_value", u, vec, j.thrown,
                           IF j.locks /\ j.thrown # NoError THEN Held ELSE Free)
  /\ UNCHANGED <<_id_contacts_map, ncontacts>>

\* the units the lock specification writes: two measured ones, load being
\* the last of them, and the first two goal units
LockUnits == {position, load, position_goal, velocity_goal}

\* one joint written with a right and a wrong length, and all joints written
\* in bulk with right lengths and with a wrong length for the second
LockVectors == {<<1>>, <<1, 1>>}
LockMaps ==
  {[id \in JointIds |-> Fill(JointDofs[id], 1)], [id \in JointIds |-> <<1>>]}

NextLock ==
  \/ lock_state
  \/ unlock_state
  \/ \E id \in {"l1"} : Pacer_add_contact(id)
  \/ Pacer_reset_contact
  \/ \E u \in LockUnits : Pacer_set_joint_value_dof("j2", u, 1, 1)
  \/ \E u \in LockUnits, v \in LockVectors : Pacer_set_joint_value("j1", u, v)
  \/ \E u \in LockUnits, m \in LockMaps : Pacer_set_joint_value_map(u, m)
  \/ \E u \in LockUnits, n \in {NUM_JOINT_DOFS, NUM_JOINT_DOFS + 1} :
       Pacer_set_joint_generalized_value(u, Fill(n, 1))
  \/ \E u \in LockUnits : \E n \in {BaseRows(u), 2} :
       Pacer_set_base_value(u, Fill(n, 1))
  \/ \E u \in LockUnits :
       Pacer_set_generalized_value(u, Fill(NUM_JOINT_DOFS + BaseRows(u), 1))

SpecLock == InitLock /\ [][NextLock]_vars

\* the calls that write a unit of the store, and the two contact calls
LockSetters ==
  {"set_joint_value_dof", "set_joint_value", "set_joint_value_map",
   "set_joint_generalized_value", "set_base_value", "set_generalized_value"}
LockContactCalls == {"add_contact", "reset_contact"}

\* C39: once the state is locked, every write to a measured unit through any
\* setter, and every add_contact and reset_contact, throws and leaves the
\* store and the contact map as they were, and a write to a goal unit made
\* with a vector of the right length succeeds; unlock_state ends it.
C39_LockedStateRefusesWrites ==
  [][ /\ (/\ _lock_state
          /\ \/ last'.op \in LockSetters /\ unit_e(last'.u) <= unit_e(load)
             \/ last'.op \in LockContactCalls)
         => /\ thrown' = StateLocked
            /\ UNCHANGED <<_state, _base_state, _id_contacts_map>>
      /\ (/\ _lock_state
          /\ last'.op \in LockSetters
          /\ unit_e(last'.u) > unit_e(load))
         => thrown' # StateLocked
      /\ (last'.op \notin {"lock_state", "unlock_state"})
         => _lock_state' = _lock_state ]_vars

====
